---------------------------- MODULE Spec2Model ----------------------------
(***************************************************************************)
(* A model of wikidata_pageviews: the bounded-memory bucketer              *)
(* (util.chunk_and_partition), the title resolver                          *)
(* (process_log.convert_titles_to_qids), the aggregation pipeline          *)
(* (process_log.process_log_entries folded by util.sum_values) and the     *)
(* per-file driver (process_log.process_file).                             *)
(*                                                                         *)
(* Each component has its own specification over the shared variables:     *)
(*   SpecCP  chunk_and_partition under every setting of its three bounds   *)
(*   SpecCT  convert_titles_to_qids, one call                              *)
(*   SpecPL  process_log_entries + sum_values over a log                   *)
(*   SpecPF  process_file invocations, one at a time, against the store    *)
(*   SpecSV  util.sum_values on a list of (id, count) pairs                *)
(*   SpecRL  process_log.read_log over the lines of a file                 *)
(*   SpecTW  dump.parse_hour and dump.parse_duration on strings            *)
(*   SpecCS  dump.convert_start_and_end against the hours of the store     *)
(*   SpecWC  dump.write_combination_file over a list of durations          *)
(*   SpecGD  dump.get_dump in each of its modes, statement by statement    *)
(*   SpecPFC process_file invocations that overlap                         *)
(*   SpecWCC write_combination_file while hours are added to the store     *)
(*   SpecCPPL chunk_and_partition on its own and under process_log_entries *)
(* util.py binds no defaultdict, so chunk_and_partition ends in NameError  *)
(* at its first next(), and with it process_log_entries and process_file.  *)
(* It binds no Iterable either, which the def statement of chunks names,   *)
(* so chunks is not defined and convert_titles_to_qids ends in NameError   *)
(* where it calls chunks, before its first batch call.  The def statement  *)
(* of sum_values names Iterable too and is indented with tabs and spaces   *)
(* (TabError), so sum_values is not defined either: a call of it, alone or *)
(* from process_file, ends in NameError.                                   *)
(* SpecCPD, SpecCTD, SpecPLD, SpecCPPLD, SpecSVD, SpecPFD and SpecPFCD are *)
(* SpecCP, SpecCT, SpecPL, SpecCPPL, SpecSV, SpecPF and SpecPFC with       *)
(* defaultdict, Iterable and sum_values bound in the namespace of util.py: *)
(* they run the code that lies behind those NameErrors, which the program  *)
(* as it is never runs.                                                    *)
(* The variables of the components a specification does not run stay at    *)
(* their idle values.  A generator (chunk_and_partition,                   *)
(* process_log_entries) has a state of its own at each yield where it is   *)
(* suspended, and a call that sends the store several statements           *)
(* (get_dump) has one between any two of them.                             *)
(***************************************************************************)
EXTENDS Integers, Sequences, FiniteSets, TLC

VARIABLES
    \* ---- chunk_and_partition (util.py:10-85)
    items,            \* the input iterable, as a sequence
    keyfn,            \* which key function was passed: "field" or "dbname"
    chunk_size,       \* Unset (None) or Some(n), n the integer passed
    max_unprocessed,  \* Unset (None) or Some(n)
    max_buckets,      \* Unset (None) or Some(n)
    pos,              \* number of input items read so far
    cache,            \* the dict of buckets, in insertion order: Seq([p, ii])
    n_unprocessed,    \* total length of the lists in cache
    drained,          \* number of cache entries the final loop has yielded
    emitted,          \* the (key, items) pairs yielded so far
    emitlog,          \* per yielded pair: which yield made it, and the cache then
    pc,               \* where the generator is: "idle", "start" (created, nothing
                      \* run), "loop" (top of the for), "evicted" (suspended at the
                      \* yield of util.py:69), "check" (after the append), "yielded"
                      \* (suspended at the yield of util.py:74), "done", "raised"
    error,            \* the message of the AssertionError or NameError that left
                      \* the generator
    \* ---- convert_titles_to_qids (process_log.py:52-150)
    ct,               \* the state of the one call being run
    \* ---- process_log_entries / sum_values (process_log.py:169-199, util.py:105-120)
    pl,               \* the state of the consumer of chunk_and_partition
    \* ---- process_file and the store (process_log.py:213-278)
    store,            \* per file name: the number of committed summary rows (table
                      \* hours) and of committed batches of view rows (qid_hourly_views)
    pf,               \* the process_file invocations: the number started, and per
                      \* process its position, file, return value and exception
    \* ---- read_log (process_log.py:162-167)
    rl,               \* the generator: the lines of the file, how many were consumed,
                      \* the entries yielded, and how it ended
    \* ---- dump.py
    dp                \* the call being run (parse_hour, parse_duration,
                      \* convert_start_and_end, get_dump or write_combination_file): its
                      \* arguments, the hours the store holds, and its outcome

vars == <<items, keyfn, chunk_size, max_unprocessed, max_buckets, pos, cache,
          n_unprocessed, drained, emitted, emitlog, pc, error, ct, pl, store, pf,
          rl, dp>>

cpvars == <<items, keyfn, chunk_size, max_unprocessed, max_buckets, pos, cache,
            n_unprocessed, drained, emitted, emitlog, pc, error>>

----------------------------------------------------------------------------
(* Bounds of the model *)

\* longest input sequence given to chunk_and_partition in SpecCP
MaxItems == 4
\* longest list of titles given to convert_titles_to_qids in SpecCT
MaxTitles == 4
\* most failed attempts of batch calls in one convert_titles_to_qids call
MaxFailures == 2
\* the size of the batches of titles, 10000 in the code (process_log.py:138,
\* 144), scaled down so that a list of MaxTitles titles takes several batches
BatchSize == 2
\* longest log given to process_log_entries in SpecPL
MaxLog == 4
\* the chunk_size process_log_entries passes, 10000 in the code
\* (process_log.py:177), scaled down so that a log of MaxLog entries fills a chunk
PLChunkSize == 2
\* most process_file invocations started in SpecPF
MaxCalls == 4
\* largest value tried for chunk_size, max_unprocessed and max_buckets
MaxParam == 3
\* longest list of pairs given to sum_values in SpecSV
MaxPairs == 3
\* most lines of a file given to read_log in SpecRL
MaxLines == 3
\* longest list of durations given to write_combination_file in SpecWC
MaxDurations == 2

\* partition keys of the generic items of SpecCP
Keys == {"a", "b", "c"}

----------------------------------------------------------------------------
(* Python's None *)

\* None as the value of an optional integer argument, and the integer n as
\* such a value: None is no integer, so it is kept apart from every integer
Unset == <<>>
Some(n) == <<n>>
ValueOf(x) == x[1]
\* None as a partition key (database_from_project_name found no database)
NoneDb == "None"
\* None as a qid (results.get(title) found nothing); the qid n is Some(n)
NoQid == <<>>

----------------------------------------------------------------------------
(* Generic helpers *)

RECURSIVE SumSeq(_)
SumSeq(s) == IF s = <<>> THEN 0 ELSE Head(s) + SumSeq(Tail(s))

\* the sum of the values function f has on the set S
RECURSIVE SumOver(_, _)
SumOver(f, S) ==
    IF S = {} THEN 0
    ELSE LET k == CHOOSE x \in S : TRUE IN f[k] + SumOver(f, S \ {k})

\* the sum of the values of a dict
SumOfValues(f) == SumOver(f, DOMAIN f)

RemoveAt(s, i) == [j \in 1..(Len(s) - 1) |-> IF j < i THEN s[j] ELSE s[j + 1]]

SeqsUpTo(S, n) == UNION {[1..m -> S] : m \in 0..n}

Min(a, b) == IF a < b THEN a ELSE b

----------------------------------------------------------------------------
(* Strings the code takes apart are modelled as sequences of characters *)

Digits == {"0", "1", "2", "3", "4", "5", "6", "7", "8", "9"}

DigitVal(c) ==
    CASE c = "0" -> 0 [] c = "1" -> 1 [] c = "2" -> 2 [] c = "3" -> 3 [] c = "4" -> 4
      [] c = "5" -> 5 [] c = "6" -> 6 [] c = "7" -> 7 [] c = "8" -> 8 [] c = "9" -> 9

RECURSIVE DigitsVal(_, _)
DigitsVal(cs, acc) ==
    IF cs = <<>> THEN acc ELSE DigitsVal(Tail(cs), 10 * acc + DigitVal(Head(cs)))

AllDigits(cs) == cs # <<>> /\ \A i \in 1..Len(cs) : cs[i] \in Digits

\* Python's int(str) on the modelled characters (letters, digits, signs): an
\* optional sign and at least one digit, anything else raises ValueError
IntOk(cs) ==
    IF cs # <<>> /\ Head(cs) \in {"+", "-"} THEN AllDigits(Tail(cs)) ELSE AllDigits(cs)

IntVal(cs) ==
    IF Head(cs) = "-" THEN 0 - DigitsVal(Tail(cs), 0)
    ELSE IF Head(cs) = "+" THEN DigitsVal(Tail(cs), 0)
    ELSE DigitsVal(cs, 0)

\* str.upper() on the modelled characters
Upper(cs) == [i \in 1..Len(cs) |-> IF cs[i] = "q" THEN "Q" ELSE cs[i]]

\* s[1:]
DropFirst(cs) == IF cs = <<>> THEN <<>> ELSE Tail(cs)


----------------------------------------------------------------------------
(* project.py: database_from_project_name.  A project name is modelled as   *)
(* the sequence of its labels (project_name.split('.')), a database name    *)
(* as a string.                                                             *)

\* _suffix_map (project.py:13-23), as a function
SuffixMap ==
    [s \in {"z", "d", "b", "n", "q", "s", "v", "voy", "m"} |->
        CASE s = "z" -> "wiki"
          [] s = "d" -> "wiktionary"
          [] s = "b" -> "wikibooks"
          [] s = "n" -> "wikinews"
          [] s = "q" -> "wikiquote"
          [] s = "s" -> "wikisource"
          [] s = "v" -> "wikiversity"
          [] s = "voy" -> "wikivoyage"
          [] s = "m" -> "wiki"]

\* _complete_map (project.py:26-30)
CompleteMap ==
    [s \in {"s", "w", "wd"} |->
        CASE s = "s" -> "sourceswiki"
          [] s = "w" -> "mediawikiwiki"
          [] s = "wd" -> "wikidatawiki"]

\* _wikimedia (project.py:33)
Wikimedia == {"bd", "dk", "mx", "nyc", "rs", "ua"}

\* _special_map (project.py:36)
SpecialMap == [s \in {"be_tarask"} |-> "be_x_oldwiki"]

\* _databases (project.py:50-51): the public database names of the site
\* matrix, here the ones the modelled projects can name
Databases == {"enwiki", "dewiki", "enwikiquote", "wikidatawiki", "mediawikiwiki",
              "be_x_oldwiki", "uawikimedia"}

\* labels[0].replace('-', '_') (project.py:61), on the modelled labels
ReplaceDash(label) == IF label = "be-tarask" THEN "be_tarask" ELSE label

\* string concatenation prefix + suffix (project.py:59, 71), on the modelled labels
Concat(prefix, suffix) ==
    CASE prefix = "en" /\ suffix = "wiki" -> "enwiki"
      [] prefix = "de" /\ suffix = "wiki" -> "dewiki"
      [] prefix = "xx" /\ suffix = "wiki" -> "xxwiki"
      [] prefix = "en" /\ suffix = "wikiquote" -> "enwikiquote"
      [] prefix = "wikidata" /\ suffix = "wiki" -> "wikidatawiki"
      [] prefix = "ua" /\ suffix = "wikimedia" -> "uawikimedia"
      [] OTHER -> "unmodelled"

\* database_from_project_name (project.py:40-77)
database_from_project_name(labels) ==
    LET n == Len(labels)
        result ==
            IF n = 2 /\ labels[1] \in {"www", "m", "zero"} /\ labels[2] \in DOMAIN CompleteMap
            THEN CompleteMap[labels[2]]
            ELSE IF labels[n] = "m" /\ labels[1] \in Wikimedia
                    /\ (n = 2 \/ labels[2] \in {"m", "zero"})
            THEN Concat(labels[1], "wikimedia")
            ELSE LET prefix == ReplaceDash(labels[1])
                     labels2 == IF n > 1 /\ labels[2] \in {"m", "zero"}
                                THEN RemoveAt(labels, 2) ELSE labels
                 IN  IF prefix \in DOMAIN SpecialMap
                     THEN SpecialMap[prefix]
                     ELSE LET site == IF Len(labels2) > 1 THEN labels2[2] ELSE "z"
                          IN  IF site \in DOMAIN SuffixMap
                              THEN Concat(prefix, SuffixMap[site])
                              ELSE NoneDb
    IN  IF result = NoneDb \/ result \notin Databases THEN NoneDb ELSE result

----------------------------------------------------------------------------
(* util.py: chunk_and_partition *)

\* key(item) (util.py:67): the generic items of SpecCP carry their key in a
\* field; process_log_entries passes lambda le: le.dbname() (process_log.py:158-159, 176)
ApplyKey(kf, item) ==
    IF kf = "dbname" THEN database_from_project_name(item.project) ELSE item.key

\* partition in cache (util.py:68)
InCache(c, p) == \E i \in 1..Len(c) : c[i].p = p

IndexOf(c, p) == CHOOSE i \in 1..Len(c) : c[i].p = p

\* max(cache.items(), key=lambda p_ii: len(p_ii[1])) (util.py:61): the first
\* of the largest buckets, in the dict's iteration (insertion) order
LargestIdx(c) ==
    CHOOSE i \in 1..Len(c) :
        /\ \A j \in 1..Len(c) : Len(c[j].ii) <= Len(c[i].ii)
        /\ \A j \in 1..(i - 1) : Len(c[j].ii) < Len(c[i].ii)

\* cache[partition].append(item) on the defaultdict (util.py:56, 70): a missing
\* key is created at the end of the dict
CacheAppend(c, p, item) ==
    IF InCache(c, p)
    THEN [c EXCEPT ![IndexOf(c, p)].ii = Append(@, item)]
    ELSE Append(c, [p |-> p, ii |-> <<item>>])

\* one entry of emitlog: the yield that fired, the cache at that moment (the
\* yielded bucket included, at idx) and the number of the item being handled
LogEntryOf(why, c, i, at) == [why |-> why, idx |-> i, open |-> c, at |-> at]

\* total length of the lists in a cache
RECURSIVE BufferedTotal(_)
BufferedTotal(c) == IF c = <<>> THEN 0 ELSE Len(Head(c).ii) + BufferedTotal(Tail(c))

\* the condition of the if at util.py:68
MustEvict(partition) ==
    /\ max_buckets # Unset
    /\ Len(cache) = ValueOf(max_buckets)
    /\ ~InCache(cache, partition)

\* the condition of the if at util.py:72
ChunkFull(partition) ==
    /\ chunk_size # Unset
    /\ Len(cache[IndexOf(cache, partition)].ii) = ValueOf(chunk_size)

\* the condition of the elif at util.py:77
MaxUnprocessedReached ==
    /\ max_unprocessed # Unset
    /\ n_unprocessed = ValueOf(max_unprocessed)

\* the condition check_optional_positive_integer asserts (util.py:49-50):
\* x is None or (x > 0 and isinstance(x, int))
OptionalPositive(x) == x = Unset \/ (ValueOf(x) \in Int /\ ValueOf(x) > 0)

\* the message of the first of the three assertions that fails, in the order
\* of util.py:52-54
AssertionMessage ==
    IF ~OptionalPositive(chunk_size)
    THEN "chunk_size must be either None or a positive integer"
    ELSE IF ~OptionalPositive(max_unprocessed)
    THEN "max_unprocessed must be either None or a positive integer"
    ELSE "max_buckets must be either None or a positive integer"

\* the names the import statements of util.py bind in its namespace
\* (util.py:5-8).  defaultdict, which chunk_and_partition calls, is not among
\* them, and no module of the package binds it there.
UtilNames == {"Iterator", "Generator", "Tuple", "itertools", "tempfile", "dedent"}

\* the message of the NameError that cache = defaultdict(list) raises
\* (util.py:56)
NameErrorMessage == "name 'defaultdict' is not defined"

\* the first next() on the generator runs the body from its top, in a
\* namespace that binds names: the three checks, which raise AssertionError
\* out of the generator, then cache = defaultdict(list), which raises
\* NameError out of the generator when defaultdict is not bound, and the
\* counter (util.py:52-57).  The call itself runs nothing.
CPCheckArgsIn(names) ==
    /\ pc = "start"
    /\ IF ~(OptionalPositive(chunk_size) /\ OptionalPositive(max_unprocessed)
              /\ OptionalPositive(max_buckets))
       THEN pc' = "raised" /\ error' = AssertionMessage
       ELSE IF "defaultdict" \notin names
       THEN pc' = "raised" /\ error' = NameErrorMessage
       ELSE pc' = "loop" /\ error' = error
    /\ UNCHANGED <<items, keyfn, chunk_size, max_unprocessed, max_buckets, pos, cache,
                   n_unprocessed, drained, emitted, emitlog>>

\* the first next() in the namespace util.py has
CPCheckArgs == CPCheckArgsIn(UtilNames)

\* the namespace of util.py with the names bound that its functions use and
\* the module as it is does not bind: defaultdict (collections) and Iterable
\* (typing), which its imports leave out, and sum_values, bound to the
\* function its def statement gives once the indentation of util.py:114-116
\* is the one of the lines around them
BoundNames == UtilNames \cup {"defaultdict", "Iterable", "sum_values"}

\* the first next() in a namespace where defaultdict is bound as well
CPCheckArgsBound == CPCheckArgsIn(BoundNames)

\* for item in items: partition = key(item), then either the max_buckets
\* eviction, where the generator is suspended at the yield of util.py:69 with
\* the largest bucket popped and the item not yet appended, or the append
\* (util.py:66-71)
CPRead ==
    /\ pc = "loop"
    /\ pos < Len(items)
    /\ LET item == items[pos + 1]
           partition == ApplyKey(keyfn, item)
           li == LargestIdx(cache)
       IN  IF MustEvict(partition)
           THEN /\ emitted' = Append(emitted, <<cache[li].p, cache[li].ii>>)
                /\ emitlog' = Append(emitlog, LogEntryOf("max_buckets", cache, li, pos + 1))
                /\ cache' = RemoveAt(cache, li)
                /\ n_unprocessed' = n_unprocessed - Len(cache[li].ii)
                /\ pc' = "evicted"
           ELSE /\ cache' = CacheAppend(cache, partition, item)
                /\ n_unprocessed' = n_unprocessed + 1
                /\ pc' = "check"
                /\ UNCHANGED <<emitted, emitlog>>
    /\ pos' = pos + 1
    /\ UNCHANGED <<items, keyfn, chunk_size, max_unprocessed, max_buckets, drained, error>>

\* the generator is resumed after the yield of util.py:69: the item that
\* caused the eviction is appended (util.py:70-71)
CPAppend ==
    /\ pc = "evicted"
    /\ cache' = CacheAppend(cache, ApplyKey(keyfn, items[pos]), items[pos])
    /\ n_unprocessed' = n_unprocessed + 1
    /\ pc' = "check"
    /\ UNCHANGED <<items, keyfn, chunk_size, max_unprocessed, max_buckets, pos, drained,
                   emitted, emitlog, error>>

\* the body of the if at util.py:72-74, up to its yield: the full bucket is
\* yielded while it is still in cache and counted in n_unprocessed
CheckChunkSize(partition) ==
    LET i == IndexOf(cache, partition)
    IN  /\ emitted' = Append(emitted, <<partition, cache[i].ii>>)
        /\ emitlog' = Append(emitlog, LogEntryOf("chunk_size", cache, i, pos))
        /\ UNCHANGED <<cache, n_unprocessed>>
        /\ pc' = "yielded"

\* the body of the elif at util.py:77-78: yield pop_largest() (util.py:59-64);
\* nothing of the loop body follows the yield
CheckMaxUnprocessed ==
    LET li == LargestIdx(cache)
    IN  /\ emitted' = Append(emitted, <<cache[li].p, cache[li].ii>>)
        /\ emitlog' = Append(emitlog, LogEntryOf("max_unprocessed", cache, li, pos))
        /\ cache' = RemoveAt(cache, li)
        /\ n_unprocessed' = n_unprocessed - Len(cache[li].ii)
        /\ pc' = "loop"

\* the rest of the loop body, after the append: the if / elif at util.py:72-78
CPCheck ==
    /\ pc = "check"
    /\ LET partition == ApplyKey(keyfn, items[pos])
       IN  IF ChunkFull(partition)
           THEN CheckChunkSize(partition)
           ELSE IF MaxUnprocessedReached
           THEN CheckMaxUnprocessed
           ELSE pc' = "loop" /\ UNCHANGED <<emitted, emitlog, cache, n_unprocessed>>
    /\ UNCHANGED <<items, keyfn, chunk_size, max_unprocessed, max_buckets, pos, drained,
                   error>>

\* the generator is resumed after the yield of util.py:74: the yielded bucket
\* is deleted and the counter lowered (util.py:75-76)
CPDelete ==
    /\ pc = "yielded"
    /\ cache' = RemoveAt(cache, IndexOf(cache, ApplyKey(keyfn, items[pos])))
    /\ n_unprocessed' = n_unprocessed - ValueOf(chunk_size)
    /\ pc' = "loop"
    /\ UNCHANGED <<items, keyfn, chunk_size, max_unprocessed, max_buckets, pos, drained,
                   emitted, emitlog, error>>

\* for p, ii in cache.items(): yield (p, ii) (util.py:84-85): one yield; the
\* loop deletes nothing from cache
CPDrain ==
    /\ pc = "loop"
    /\ pos = Len(items)
    /\ drained < Len(cache)
    /\ emitted' = Append(emitted, <<cache[drained + 1].p, cache[drained + 1].ii>>)
    /\ emitlog' = Append(emitlog, LogEntryOf("drain", cache, drained + 1, pos))
    /\ drained' = drained + 1
    /\ UNCHANGED <<items, keyfn, chunk_size, max_unprocessed, max_buckets, pos, cache,
                   n_unprocessed, pc, error>>

\* the generator returns (util.py:85, end of the function)
CPDone ==
    /\ pc = "loop"
    /\ pos = Len(items)
    /\ drained = Len(cache)
    /\ pc' = "done"
    /\ UNCHANGED <<items, keyfn, chunk_size, max_unprocessed, max_buckets, pos, cache,
                   n_unprocessed, drained, emitted, emitlog, error>>

\* chunk_and_partition(items, key, chunk_size, max_unprocessed, max_buckets)
\* is called: a generator object that has run nothing yet (util.py:10)
CPStart(its, kf, cs, mu, mb) ==
    /\ items = its
    /\ keyfn = kf
    /\ chunk_size = cs
    /\ max_unprocessed = mu
    /\ max_buckets = mb
    /\ pos = 0
    /\ cache = <<>>
    /\ n_unprocessed = 0
    /\ drained = 0
    /\ emitted = <<>>
    /\ emitlog = <<>>
    /\ error = "none"
    /\ pc = "start"

\* the idle values of the other components
CTIdle == [pc |-> "idle"]
PLIdle == [pc |-> "idle"]
RLIdle == [pc |-> "idle"]
DPIdle == [pc |-> "idle"]

\* the names of the hourly log files
Files == {"pageviews-20200110-050000.gz", "pageviews-20200110-060000.gz"}

\* the processes that may run process_file
Procs == {1, 2}

\* a process that is not in process_file
PFProcIdle == [pc |-> "idle", file |-> "none", ret |-> "none", existed |-> FALSE,
               computed |-> FALSE, exc |-> "none"]

PFIdle == [calls |-> 0, proc |-> [p \in Procs |-> PFProcIdle]]

\* the empty store
StoreIdle == [hours |-> [f \in Files |-> 0], views |-> [f \in Files |-> 0]]

\* the generic items: the i-th input item carries its key and its position
GenericItems(n) ==
    UNION {{[i \in 1..m |-> [key |-> ks[i], id |-> i]] : ks \in [1..m -> Keys]} : m \in 0..n}

\* the values tried for a bound: None, 0 (which the check refuses) and the
\* positive integers up to MaxParam
OptionalParam == {Unset} \cup {Some(n) : n \in 0..MaxParam}

InitCP ==
    /\ \E its \in GenericItems(MaxItems), cs \in OptionalParam, mu \in OptionalParam,
          mb \in OptionalParam :
          CPStart(its, "field", cs, mu, mb)
    /\ ct = CTIdle
    /\ pl = PLIdle
    /\ pf = PFIdle
    /\ store = StoreIdle
    /\ rl = RLIdle
    /\ dp = DPIdle

\* chunk_and_partition as util.py has it: the generator ends at its first
\* next(), in AssertionError or in NameError, and the loop is never entered
NextCP == CPCheckArgs /\ UNCHANGED <<ct, pl, store, pf, rl, dp>>

SpecCP == InitCP /\ [][NextCP]_vars

\* chunk_and_partition with defaultdict bound in its namespace, which the
\* program as it is does not have: the steps of
\* the loop and of the final loop (util.py:66-85)
NextCPD ==
    \/ CPCheckArgsBound /\ UNCHANGED <<ct, pl, store, pf, rl, dp>>
    \/ CPRead /\ UNCHANGED <<ct, pl, store, pf, rl, dp>>
    \/ CPAppend /\ UNCHANGED <<ct, pl, store, pf, rl, dp>>
    \/ CPCheck /\ UNCHANGED <<ct, pl, store, pf, rl, dp>>
    \/ CPDelete /\ UNCHANGED <<ct, pl, store, pf, rl, dp>>
    \/ CPDrain /\ UNCHANGED <<ct, pl, store, pf, rl, dp>>
    \/ CPDone /\ UNCHANGED <<ct, pl, store, pf, rl, dp>>

SpecCPD == InitCP /\ [][NextCPD]_vars


----------------------------------------------------------------------------
(* process_log.py: convert_titles_to_qids, against the replica database of  *)
(* a wiki (the resolution collaborator)                                     *)

TCat == <<"C", "a", "t">>
TDog == <<"D", "o", "g">>
TKitty == <<"K", "i", "t", "t", "y">>
TBoth == <<"B", "o", "t", "h">>
TZzz == <<"Z", "z", "z">>

\* the rows (page_title, pp_value) of the direct query (process_log.py:104-111)
\* for each database: pages that carry a wikibase_item
DirectTable(db) ==
    CASE db = "enwiki" -> {<<TCat, <<"Q", "1", "0", "0">>>>,
                           <<TDog, <<"q", "2", "0", "0">>>>,
                           <<TBoth, <<"Q", "7">>>>}
      [] db = "dewiki" -> {<<TDog, <<"Q", "2", "0", "0">>>>}
      [] db = "enwikiquote" -> {<<TCat, <<"Q", "3", "0", "0">>>>}
      [] OTHER -> {}

\* the rows of the redirect query (process_log.py:118-132): redirect pages
\* whose target carries a wikibase_item
RedirectTable(db) ==
    CASE db = "enwiki" -> {<<TKitty, <<"Q", "1", "0", "0">>>>,
                           <<TBoth, <<"Q", "8">>>>}
      [] db = "dewiki" -> {<<TCat, <<"Q", "1", "0", "0">>>>}
      [] OTHER -> {}

\* the rows a query returns for a batch: WHERE page_title IN (batch)
\* (process_log.py:108, 122)
QueryRows(table, batch) == {r \in table : \E i \in 1..Len(batch) : batch[i] = r[1]}

\* qid = int(qid.decode().upper()[1:]) (process_log.py:93)
QidOfValue(v) == IntVal(DropFirst(Upper(v)))

\* results[title] = qid for each row of a set of rows (process_log.py:88-97)
StoreRows(results, rows) ==
    [t \in DOMAIN results \cup {r[1] : r \in rows} |->
        IF \E r \in rows : r[1] = t
        THEN QidOfValue((CHOOSE r \in rows : r[1] = t)[2])
        ELSE results[t]]

\* def chunks(iterable:Iterable, size:int=10) -> Generator[Generator, None, None]
\* (util.py:89): the def statement evaluates its annotations, so it binds
\* chunks only in a namespace that binds Iterable and Generator.  util.py
\* imports Generator and not Iterable (util.py:5): as the module is, the
\* statement raises NameError and chunks is not defined.
ChunksDefined(names) == "Iterable" \in names /\ "Generator" \in names

\* the chunk that the body of chunks(iterable, size) yields when idx items
\* were consumed (util.py:98-102).  It is used only behind ChunksDefined:
\* where chunks is not defined no chunk exists.
ChunkAt(list, idx, size) == SubSeq(list, idx + 1, Min(idx + size, Len(list)))

\* remaining = [ title for title in titles if title not in results ]
\* (process_log.py:141)
RemainingTitles(titles, results) == SelectSeq(titles, LAMBDA t : t \notin DOMAIN results)

\* [ results.get(title) for title in titles ] (process_log.py:150)
ResultList(titles, results) ==
    [i \in 1..Len(titles) |->
        IF titles[i] \in DOMAIN results THEN Some(results[titles[i]]) ELSE NoQid]

\* the list a pass iterates in chunks: titles, then remaining (process_log.py:138, 144)
CTList == IF ct.pc = "direct" THEN ct.titles ELSE ct.remaining

CTTable == IF ct.pc = "direct" THEN DirectTable(ct.dbname) ELSE RedirectTable(ct.dbname)

\* for chunk in chunks(titles, 10000) (process_log.py:138) calls chunks for
\* the first time, inside the with block, whatever titles is, in a namespace
\* of util.py that binds names.  Where chunks is not defined the call raises
\* NameError, which leaves the with block and convert_titles_to_qids before
\* any batch call is made; where it is, the direct pass starts.
CTEnterIn(names) ==
    /\ ct.pc = "start"
    /\ IF ChunksDefined(names)
       THEN ct' = [ct EXCEPT !.pc = "direct"]
       ELSE ct' = [ct EXCEPT !.pc = "raised", !.exc = "NameError"]

\* the call of chunks in the namespace util.py has: it ends in NameError
CTEnter == CTEnterIn(UtilNames)

\* the call of chunks in a namespace where Iterable is bound as well
CTEnterBound == CTEnterIn(BoundNames)

\* one batch call that succeeds: get_results stores every row
\* (process_log.py:138-139, 144-145, 73-98).  A call whose failure is not
\* transient fails at every attempt, so it never succeeds.
CTCall ==
    /\ ct.pc \in {"direct", "redirect"}
    /\ ct.idx < Len(CTList)
    /\ ct.last_failure # "permanent"
    /\ LET chunk == ChunkAt(CTList, ct.idx, BatchSize)
           rows == QueryRows(CTTable, chunk)
       IN  ct' = [ct EXCEPT
                    !.results = StoreRows(@, rows),
                    !.idx = @ + Len(chunk),
                    !.n_direct = IF ct.pc = "direct" THEN @ + Cardinality(rows) ELSE @,
                    !.n_redirect = IF ct.pc = "redirect" THEN @ + Cardinality(rows) ELSE @,
                    !.calls = Append(@, [pass |-> ct.pc, batch |-> chunk, rows |-> rows]),
                    !.last_failure = "none"]

\* the kinds of failure of a batch call: one that a later attempt may not
\* meet again (a lost connection), one that every attempt meets (a statement
\* the server rejects, a row that int() cannot read)
FailureKinds == {"transient", "permanent"}

\* one attempt of a batch call that raises, after it stored some of the rows
\* (partial records that a failed attempt stored rows).
\* @retry (process_log.py:72) is given a wait and nothing else: no retry=
\* and no stop=, so whatever the exception is get_results runs again with
\* the same sql, and the call stays where it is.
CTFail ==
    /\ ct.pc \in {"direct", "redirect"}
    /\ ct.idx < Len(CTList)
    /\ ct.fails < MaxFailures
    /\ LET chunk == ChunkAt(CTList, ct.idx, BatchSize)
           rows == QueryRows(CTTable, chunk)
       IN  \E part \in SUBSET rows, kind \in FailureKinds :
              /\ ct.last_failure = "permanent" => kind = "permanent"
              /\ ct' = [ct EXCEPT !.results = StoreRows(@, part),
                                  !.fails = @ + 1,
                                  !.last_failure = kind,
                                  !.retried = (@ \cup {ct.last_failure}) \ {"none"},
                                  !.partial = @ \/ part # {}]

\* the direct pass is over: remaining is computed, and the redirect pass
\* starts if it is not empty (process_log.py:141-143)
CTRemaining ==
    /\ ct.pc = "direct"
    /\ ct.idx = Len(ct.titles)
    /\ LET remaining == RemainingTitles(ct.titles, ct.results)
       IN  ct' = [ct EXCEPT !.remaining = remaining,
                            !.idx = 0,
                            !.pc = IF remaining # <<>> THEN "redirect" ELSE "return"]

\* the return statement (process_log.py:150)
CTReturn ==
    /\ \/ ct.pc = "return"
       \/ ct.pc = "redirect" /\ ct.idx = Len(ct.remaining)
    /\ ct' = [ct EXCEPT !.ret = ResultList(ct.titles, ct.results), !.pc = "done"]

\* the state at the start of a call, up to the with statement
\* (process_log.py:62-63, 135-136)
CTStart(dbname, titles) ==
    [pc |-> "start", dbname |-> dbname, titles |-> titles, results |-> <<>>,
     idx |-> 0, remaining |-> <<>>, n_direct |-> 0, n_redirect |-> 0,
     ret |-> <<>>, calls |-> <<>>, fails |-> 0, last_failure |-> "none",
     retried |-> {}, partial |-> FALSE, exc |-> "none"]

\* convert_titles_to_qids as a function of its arguments, where chunks is
\* defined and every batch call ends up succeeding (process_log.py:52-150)
convert_titles_to_qids(dbname, titles) ==
    LET direct == StoreRows(<<>>, QueryRows(DirectTable(dbname), titles))
        remaining == RemainingTitles(titles, direct)
        both == StoreRows(direct, QueryRows(RedirectTable(dbname), remaining))
    IN  ResultList(titles, both)

TitlePool == {TCat, TDog, TKitty, TBoth, TZzz}

CPIdle ==
    /\ items = <<>> /\ keyfn = "field"
    /\ chunk_size = Unset /\ max_unprocessed = Unset /\ max_buckets = Unset
    /\ pos = 0 /\ cache = <<>> /\ n_unprocessed = 0 /\ drained = 0
    /\ emitted = <<>> /\ emitlog = <<>> /\ pc = "idle" /\ error = "none"

InitCT ==
    /\ \E db \in {"enwiki", "dewiki"}, ts \in SeqsUpTo(TitlePool, MaxTitles) :
          ct = CTStart(db, ts)
    /\ CPIdle
    /\ pl = PLIdle
    /\ pf = PFIdle
    /\ store = StoreIdle
    /\ rl = RLIdle
    /\ dp = DPIdle

\* convert_titles_to_qids as the package has it: the call ends in NameError
\* where it calls chunks, and no batch call is made
NextCT == CTEnter /\ UNCHANGED <<cpvars, pl, store, pf, rl, dp>>

SpecCT == InitCT /\ [][NextCT]_vars

\* convert_titles_to_qids with Iterable bound in the namespace of util.py,
\* which the program as it is does not have: the two passes, with failing
\* batch calls (process_log.py:138-150)
NextCTD ==
    \/ CTEnterBound /\ UNCHANGED <<cpvars, pl, store, pf, rl, dp>>
    \/ CTCall /\ UNCHANGED <<cpvars, pl, store, pf, rl, dp>>
    \/ CTFail /\ UNCHANGED <<cpvars, pl, store, pf, rl, dp>>
    \/ CTRemaining /\ UNCHANGED <<cpvars, pl, store, pf, rl, dp>>
    \/ CTReturn /\ UNCHANGED <<cpvars, pl, store, pf, rl, dp>>

SpecCTD == InitCT /\ [][NextCTD]_vars

----------------------------------------------------------------------------
(* process_log.py: process_log_entries, and util.py: sum_values *)

\* max_buckets=3 (process_log.py:177)
PLMaxBuckets == 3

\* the loop of sum_values (util.py:115-119), from a dict results
sum_values_from(kvs, results) ==
    LET F[i \in 0..Len(kvs)] ==
            IF i = 0 THEN results
            ELSE LET k == kvs[i][1]
                     v == kvs[i][2]
                     r == F[i - 1]
                 IN  IF k \in DOMAIN r
                     THEN [r EXCEPT ![k] = @ + v]
                     ELSE [x \in DOMAIN r \cup {k} |-> IF x = k THEN k ELSE r[x]]
    IN  F[Len(kvs)]

\* the call raises e
Raises(e) == <<"raise", e>>

\* def sum_values(kvs:Iterable[Tuple[str, int]]) (util.py:105-120) binds the
\* name sum_values only where the statement compiles and its annotation can
\* be evaluated.  In util.py it does neither: the docstring and the lines
\* results = dict() and for k, v in kvs: are indented with tabs and the lines
\* around them with spaces (TabError, util.py:114-116), and Iterable is no
\* name of the module (util.py:5).  So the name is bound only in a namespace
\* that was given it.
SumValuesDefined(names) == "sum_values" \in names

\* sum_values(kvs) called in a namespace that binds names: NameError where
\* sum_values is not defined, the mapping of its loop where it is
sum_values_in(names, kvs) ==
    IF SumValuesDefined(names)
    THEN sum_values_from(kvs, <<>>)
    ELSE Raises("NameError")

\* sum_values(kvs) in the namespace util.py has (util.py:105-120)
sum_values(kvs) == sum_values_in(UtilNames, kvs)

\* title.startswith("Q") (process_log.py:186)
StartsWithQ(title) == title # <<>> /\ title[1] = "Q"

\* the list comprehension of the wikidatawiki case raises ValueError
\* (process_log.py:185-186): int() of the rest of a title that starts with Q
WikidataRaises(titles) ==
    \E i \in 1..Len(titles) : StartsWithQ(titles[i]) /\ ~IntOk(DropFirst(titles[i]))

\* qids = [ int(title[1:]) if title.startswith("Q") else None for title in titles ]
\* (process_log.py:185-186)
WikidataQids(titles) ==
    [i \in 1..Len(titles) |->
        IF StartsWithQ(titles[i]) THEN Some(IntVal(DropFirst(titles[i]))) ELSE NoQid]

\* the (qid, views) pairs the loop at process_log.py:192-194 yields for a batch
BatchPairs(entries, qids) ==
    LET idxs == SelectSeq([i \in 1..Len(entries) |-> i], LAMBDA i : qids[i] # NoQid)
    IN  [j \in 1..Len(idxs) |-> <<ValueOf(qids[idxs[j]]), entries[idxs[j]].views>>]

\* the views of the entries of a batch that got no qid (process_log.py:195-197)
BatchUnconverted(entries, qids) ==
    LET idxs == SelectSeq([i \in 1..Len(entries) |-> i], LAMBDA i : qids[i] = NoQid)
    IN  [j \in 1..Len(idxs) |-> entries[idxs[j]].views]

\* the for loop over chunk_and_partition has its next (dbname, log_entries)
\* pair, and the body runs up to the zip loop (process_log.py:176-190): a
\* batch of key None is counted and the loop continues; the list of a
\* wikidatawiki batch is built, or raises ValueError; any other batch goes
\* to convert_titles_to_qids
PLBatch ==
    /\ pl.pc = "run"
    /\ pl.consumed < Len(emitted)
    /\ LET dbname == emitted[pl.consumed + 1][1]
           entries == emitted[pl.consumed + 1][2]
           titles == [i \in 1..Len(entries) |-> entries[i].title]
           views == [i \in 1..Len(entries) |-> entries[i].views]
       IN  IF dbname = NoneDb
           THEN pl' = [pl EXCEPT !.consumed = @ + 1,
                                 !.unconverted_titles = @ + Len(views),
                                 !.unconverted_views = @ + SumSeq(views)]
           ELSE IF dbname = "wikidatawiki" /\ WikidataRaises(titles)
           THEN pl' = [pl EXCEPT !.pc = "raised", !.exc = "ValueError"]
           ELSE pl' = [pl EXCEPT !.consumed = @ + 1,
                                 !.pc = "zip",
                                 !.log_entries = entries,
                                 !.qids = IF dbname = "wikidatawiki"
                                          THEN WikidataQids(titles)
                                          ELSE convert_titles_to_qids(dbname, titles),
                                 !.idx = 0,
                                 !.resolver_calls =
                                     IF dbname = "wikidatawiki" THEN @
                                     ELSE Append(@, <<dbname, titles>>)]
    /\ UNCHANGED <<cpvars, ct, store, pf, rl, dp>>

\* one turn of for le, qid in zip(log_entries, qids) (process_log.py:192-197):
\* an entry with a qid is yielded as (qid, le.views), where the generator is
\* suspended with the counters as they are; an entry without one is counted.
\* After the last entry the outer loop asks chunk_and_partition for its next
\* pair.
PLEntry ==
    /\ pl.pc = "zip"
    /\ pl.idx < Len(pl.log_entries)
    /\ LET le == pl.log_entries[pl.idx + 1]
           qid == pl.qids[pl.idx + 1]
           next == IF pl.idx + 1 = Len(pl.log_entries) THEN "run" ELSE "zip"
       IN  IF qid # NoQid
           THEN pl' = [pl EXCEPT !.pairs = Append(@, <<ValueOf(qid), le.views>>),
                                 !.idx = @ + 1,
                                 !.pc = next]
           ELSE pl' = [pl EXCEPT !.unconverted_titles = @ + 1,
                                 !.unconverted_views = @ + le.views,
                                 !.idx = @ + 1,
                                 !.pc = next]
    /\ UNCHANGED <<cpvars, ct, store, pf, rl, dp>>

\* the for loop asks chunk_and_partition for its next pair and the generator
\* raises: the exception leaves process_log_entries, which yields nothing
\* more (process_log.py:176-177)
PLRaise ==
    /\ pl.pc = "run"
    /\ pc = "raised"
    /\ pl' = [pl EXCEPT !.pc = "raised",
                        !.exc = IF error = NameErrorMessage THEN "NameError"
                                ELSE "AssertionError"]
    /\ UNCHANGED <<cpvars, ct, store, pf, rl, dp>>

\* yield (0, unconverted_views) once the generator is exhausted (process_log.py:198-199)
PLFinal ==
    /\ pl.pc = "run"
    /\ pc = "done"
    /\ pl.consumed = Len(emitted)
    /\ pl' = [pl EXCEPT !.pairs = Append(@, <<0, pl.unconverted_views>>), !.pc = "exhausted"]
    /\ UNCHANGED <<cpvars, ct, store, pf, rl, dp>>

\* qid_views = sum_values(qid_views) (process_log.py:276) in a namespace
\* that binds names: where sum_values is not defined the call raises
\* NameError and nothing is assigned
PLSumIn(names) ==
    /\ pl.pc = "exhausted"
    /\ IF SumValuesDefined(names)
       THEN pl' = [pl EXCEPT !.qid_views = sum_values_in(names, pl.pairs), !.pc = "summed"]
       ELSE pl' = [pl EXCEPT !.pc = "raised", !.exc = "NameError"]
    /\ UNCHANGED <<cpvars, ct, store, pf, rl, dp>>

\* the call in the namespace util.py has: it ends in NameError
PLSum == PLSumIn(UtilNames)

\* the call in a namespace where sum_values is bound
PLSumBound == PLSumIn(BoundNames)

\* the generator of chunk_and_partition runs only when its consumer asks for
\* the next pair (process_log.py:176)
PLPull == pl.pc = "run" /\ pl.consumed = Len(emitted)

\* the state at the first next() on process_log_entries (process_log.py:173-174)
PLStart ==
    [pc |-> "run", consumed |-> 0, pairs |-> <<>>, resolver_calls |-> <<>>,
     unconverted_titles |-> 0, unconverted_views |-> 0, qid_views |-> <<>>,
     log_entries |-> <<>>, qids |-> <<>>, idx |-> 0, exc |-> "none"]

\* LogEntry (process_log.py:152-159); the project is the sequence of its labels
LogEntry(project, title, views) == [project |-> project, title |-> title, views |-> views]

\* the lines a log is made of
LogPool ==
    {LogEntry(<<"en">>, TCat, 5),
     LogEntry(<<"en", "m">>, TCat, 3),
     LogEntry(<<"en">>, TDog, 1),
     LogEntry(<<"en">>, TZzz, 4),
     LogEntry(<<"de">>, TCat, 2),
     LogEntry(<<"www", "wd">>, <<"Q", "5">>, 6),
     LogEntry(<<"www", "wd">>, <<"Q", "0">>, 1),
     LogEntry(<<"www", "wd">>, <<"Q", "x">>, 1),
     LogEntry(<<"www", "wd">>, <<"Q", "-", "1">>, 2),
     LogEntry(<<"www", "wd">>, TCat, 2),
     LogEntry(<<"xx">>, TCat, 7)}

InitPL ==
    /\ \E log \in SeqsUpTo(LogPool, MaxLog) :
          CPStart(log, "dbname", Some(PLChunkSize), Unset, Some(PLMaxBuckets))
    /\ pl = PLStart
    /\ ct = CTIdle
    /\ pf = PFIdle
    /\ store = StoreIdle
    /\ rl = RLIdle
    /\ dp = DPIdle

\* process_log_entries as the package has it: the first next() of
\* chunk_and_partition raises NameError, which ends process_log_entries
\* before it has a batch
NextPL ==
    \/ PLPull /\ CPCheckArgs /\ UNCHANGED <<ct, pl, store, pf, rl, dp>>
    \/ PLRaise

SpecPL == InitPL /\ [][NextPL]_vars

\* process_log_entries with defaultdict, Iterable and sum_values bound in the
\* namespace of util.py, which the program as it is does not have: the batches, the zip loop and the final pair
\* (process_log.py:176-199), folded by sum_values
NextPLD ==
    \/ PLPull /\ CPCheckArgsBound /\ UNCHANGED <<ct, pl, store, pf, rl, dp>>
    \/ PLPull /\ CPRead /\ UNCHANGED <<ct, pl, store, pf, rl, dp>>
    \/ PLPull /\ CPAppend /\ UNCHANGED <<ct, pl, store, pf, rl, dp>>
    \/ PLPull /\ CPCheck /\ UNCHANGED <<ct, pl, store, pf, rl, dp>>
    \/ PLPull /\ CPDelete /\ UNCHANGED <<ct, pl, store, pf, rl, dp>>
    \/ PLPull /\ CPDrain /\ UNCHANGED <<ct, pl, store, pf, rl, dp>>
    \/ PLPull /\ CPDone /\ UNCHANGED <<ct, pl, store, pf, rl, dp>>
    \/ PLBatch
    \/ PLEntry
    \/ PLFinal
    \/ PLSumBound

SpecPLD == InitPL /\ [][NextPLD]_vars

\* chunk_and_partition run to its end by a consumer of its own, for every
\* setting of its bounds, and lazily by process_log_entries, with the
\* settings of process_log.py:176-177
InitCPPL == InitCP \/ InitPL

NextCPPL ==
    \/ (pl = PLIdle \/ PLPull) /\ CPCheckArgs /\ UNCHANGED <<ct, pl, store, pf, rl, dp>>
    \/ PLRaise

SpecCPPL == InitCPPL /\ [][NextCPPL]_vars

\* the same with defaultdict, Iterable and sum_values bound in the namespace
\* of util.py
NextCPPLD ==
    \/ (pl = PLIdle \/ PLPull) /\ CPCheckArgsBound /\ UNCHANGED <<ct, pl, store, pf, rl, dp>>
    \/ (pl = PLIdle \/ PLPull) /\ CPRead /\ UNCHANGED <<ct, pl, store, pf, rl, dp>>
    \/ (pl = PLIdle \/ PLPull) /\ CPAppend /\ UNCHANGED <<ct, pl, store, pf, rl, dp>>
    \/ (pl = PLIdle \/ PLPull) /\ CPCheck /\ UNCHANGED <<ct, pl, store, pf, rl, dp>>
    \/ (pl = PLIdle \/ PLPull) /\ CPDelete /\ UNCHANGED <<ct, pl, store, pf, rl, dp>>
    \/ (pl = PLIdle \/ PLPull) /\ CPDrain /\ UNCHANGED <<ct, pl, store, pf, rl, dp>>
    \/ (pl = PLIdle \/ PLPull) /\ CPDone /\ UNCHANGED <<ct, pl, store, pf, rl, dp>>
    \/ PLBatch
    \/ PLEntry
    \/ PLFinal
    \/ PLSumBound

SpecCPPLD == InitCPPL /\ [][NextCPPLD]_vars

\* the (id, count) pairs of the lists given to sum_values in SpecSV
PairPool == {0, 100, 200} \X {1, 3, 5}

\* sum_values called on a list of pairs (util.py:105)
InitSV ==
    /\ \E kvs \in SeqsUpTo(PairPool, MaxPairs) :
          pl = [PLStart EXCEPT !.pairs = kvs, !.pc = "exhausted"]
    /\ CPIdle
    /\ ct = CTIdle
    /\ pf = PFIdle
    /\ store = StoreIdle
    /\ rl = RLIdle
    /\ dp = DPIdle

\* the call as util.py has it: sum_values is not defined
NextSV == PLSum

SpecSV == InitSV /\ [][NextSV]_vars

\* the call with sum_values bound in the namespace of util.py, which the
\* program as it is does not have: the loop of util.py:115-119 runs
NextSVD == PLSumBound

SpecSVD == InitSV /\ [][NextSVD]_vars

----------------------------------------------------------------------------
(* process_log.py: read_log.  A line is the sequence of its characters.      *)

\* str.split(sep) for a separator of one character (process_log.py:166)
RECURSIVE Split(_, _)
Split(cs, sep) ==
    IF \A i \in 1..Len(cs) : cs[i] # sep THEN <<cs>>
    ELSE LET i == CHOOSE j \in 1..Len(cs) : cs[j] = sep /\ \A k \in 1..(j - 1) : cs[k] # sep
         IN  <<SubSeq(cs, 1, i - 1)>> \o Split(SubSeq(cs, i + 1, Len(cs)), sep)

\* the body of the loop raises ValueError for this line: the unpacking into
\* four names when split gives another number of fields, int() when the third
\* field is not an integer (process_log.py:166-167)
LineRaises(line) ==
    LET fields == Split(line, " ")
    IN  Len(fields) # 4 \/ ~IntOk(fields[3])

\* LogEntry(project, title, int(views)) (process_log.py:166-167)
LineEntry(line) ==
    LET fields == Split(line, " ")
    IN  LogEntry(fields[1], fields[2], IntVal(fields[3]))

\* the next line is read and its entry yielded (process_log.py:165-167)
RLYield ==
    /\ rl.pc = "run"
    /\ rl.idx < Len(rl.lines)
    /\ ~LineRaises(rl.lines[rl.idx + 1])
    /\ rl' = [rl EXCEPT !.idx = @ + 1, !.out = Append(@, LineEntry(rl.lines[rl.idx + 1]))]
    /\ UNCHANGED <<cpvars, ct, pl, store, pf, dp>>

\* the next line makes the body of the loop raise: nothing catches the
\* exception, so it leaves the generator, which is then finished
\* (process_log.py:163-167)
RLRaise ==
    /\ rl.pc = "run"
    /\ rl.idx < Len(rl.lines)
    /\ LineRaises(rl.lines[rl.idx + 1])
    /\ rl' = [rl EXCEPT !.pc = "raised", !.error = "ValueError"]
    /\ UNCHANGED <<cpvars, ct, pl, store, pf, dp>>

\* the lines are exhausted: the generator returns (process_log.py:165)
RLExhaust ==
    /\ rl.pc = "run"
    /\ rl.idx = Len(rl.lines)
    /\ rl' = [rl EXCEPT !.pc = "done"]
    /\ UNCHANGED <<cpvars, ct, pl, store, pf, dp>>

\* the generator at its first next(): f.readlines() has read every line
\* (process_log.py:164-165)
RLStart(lines) == [pc |-> "run", lines |-> lines, idx |-> 0, out |-> <<>>, error |-> "none"]

\* the lines a file is made of: two well-formed lines, a line whose view
\* count is no number, a line of three fields and a line of five
LinePool ==
    {<<"e", "n", " ", "C", "a", "t", " ", "5", " ", "0", "\n">>,
     <<"d", "e", " ", "D", "o", "g", " ", "1", "2", " ", "0", "\n">>,
     <<"e", "n", " ", "C", "a", "t", " ", "x", " ", "0", "\n">>,
     <<"e", "n", " ", "C", "a", "t", " ", "5", "\n">>,
     <<"e", "n", " ", "C", "a", "t", " ", "5", " ", "0", " ", "0", "\n">>}

InitRL ==
    /\ \E lines \in SeqsUpTo(LinePool, MaxLines) : rl = RLStart(lines)
    /\ CPIdle
    /\ ct = CTIdle
    /\ pl = PLIdle
    /\ pf = PFIdle
    /\ store = StoreIdle
    /\ dp = DPIdle

NextRL ==
    \/ RLYield
    \/ RLRaise
    \/ RLExhaust

SpecRL == InitRL /\ [][NextRL]_vars

----------------------------------------------------------------------------
(* process_log.py: process_file, check_for_existing and write_to_database,  *)
(* against the store.  Each invocation runs in a process.  The store is     *)
(* the database of the deployment: it may hold the rows of files that were  *)
(* recorded before.                                                         *)

\* no other process is inside process_file: the caller runs the invocations
\* one after the other.  iterate_until_n_succeed, which main hands
\* process_file to (__init__.py:45-46), is not in the sources; that the
\* caller serializes the invocations is what the specification requires of it.
NonConcurrent(p) ==
    \A q \in Procs \ {p} : pf.proc[q].pc \in {"idle", "returned", "raised"}

\* process_file is called for a file (process_log.py:259, 268-269)
PFCall(p, f) ==
    /\ pf.proc[p].pc \in {"idle", "returned", "raised"}
    /\ pf.calls < MaxCalls
    /\ pf' = [pf EXCEPT !.calls = @ + 1,
                        !.proc[p] = [PFProcIdle EXCEPT !.pc = "check", !.file = f]]
    /\ UNCHANGED store

\* the store holds a summary row for the file (recorded at the check of an
\* invocation, in its field existed)
HasSummary(f) == store.hours[f] > 0

\* check_for_existing (process_log.py:247-256): cursor.rowcount != 0
check_for_existing(f) == store.hours[f] # 0

\* if check_for_existing(database, file.name): return False (process_log.py:270-273)
PFCheck(p) ==
    /\ pf.proc[p].pc = "check"
    /\ IF check_for_existing(pf.proc[p].file)
       THEN pf' = [pf EXCEPT !.proc[p].pc = "returned", !.proc[p].ret = "False",
                             !.proc[p].existed = HasSummary(pf.proc[p].file)]
       ELSE pf' = [pf EXCEPT !.proc[p].pc = "compute",
                             !.proc[p].existed = HasSummary(pf.proc[p].file)]
    /\ UNCHANGED store

\* read_log and process_log_entries make their generators, and
\* sum_values(qid_views) is called (process_log.py:273-276), in a namespace
\* of util.py that binds names.  Where sum_values is not defined the call
\* raises NameError (process_log.py:276) before either generator has run a
\* statement, and the exception leaves process_file.  Where it is defined it
\* asks process_log_entries for its first pair: without defaultdict the
\* first next() of chunk_and_partition raises NameError (util.py:56) before a
\* line of the file is read, and the exception leaves process_log_entries,
\* sum_values and process_file.  With both the aggregate is computed, and
\* write_to_database builds data and opens its connection
\* (process_log.py:277, 225-232).
PFComputeIn(p, names) ==
    /\ pf.proc[p].pc = "compute"
    /\ IF ~SumValuesDefined(names) \/ "defaultdict" \notin names
       THEN pf' = [pf EXCEPT !.proc[p].pc = "raised", !.proc[p].exc = "NameError"]
       ELSE pf' = [pf EXCEPT !.proc[p].pc = "write_views", !.proc[p].computed = TRUE]
    /\ UNCHANGED store

\* the computation in the namespace util.py has: it ends in NameError
PFCompute(p) == PFComputeIn(p, UtilNames)

\* batch_insert(cursor, 'qid_hourly_views', data) (process_log.py:233), which
\* is reached only when the aggregate was computed: the def statement of
\* batch_insert names low_priority and concurrent twice among its parameters
\* (util.py:123-124), so batch_insert is not defined in any namespace and the
\* call raises NameError before it has sent the store a statement; past its
\* def statement the second assertion of its body names low_priory, which is
\* no name of the function (util.py:149), with the same outcome.  The exception leaves the with block, then
\* write_to_database and process_file: the INSERT INTO hours of
\* process_log.py:235-245 and the return True of process_log.py:278 are
\* never reached.
PFWriteViews(p) ==
    /\ pf.proc[p].pc = "write_views"
    /\ pf' = [pf EXCEPT !.proc[p].pc = "raised", !.proc[p].exc = "NameError"]
    /\ UNCHANGED store

\* a ValueError leaves process_file while the aggregate is computed, once
\* chunk_and_partition reads the file: from a line of read_log
\* (process_log.py:166-167) or from a wikidatawiki title
\* (process_log.py:185-186), before anything was sent to the store
PFRaise(p) ==
    /\ pf.proc[p].pc = "compute"
    /\ pf' = [pf EXCEPT !.proc[p].pc = "raised", !.proc[p].exc = "ValueError"]
    /\ UNCHANGED store

\* the store before the invocations: per file, no rows or the rows of one
\* recorded run
InitPF ==
    /\ pf = PFIdle
    /\ \E h \in [Files -> {0, 1}] : store = [hours |-> h, views |-> h]
    /\ rl = RLIdle
    /\ dp = DPIdle
    /\ CPIdle
    /\ ct = CTIdle
    /\ pl = PLIdle

\* process_file invocations that the caller runs one after the other
NextPF ==
    \/ \E p \in Procs, f \in Files : NonConcurrent(p) /\ PFCall(p, f) /\ UNCHANGED <<cpvars, ct, pl, rl, dp>>
    \/ \E p \in Procs : PFCheck(p) /\ UNCHANGED <<cpvars, ct, pl, rl, dp>>
    \/ \E p \in Procs : PFCompute(p) /\ UNCHANGED <<cpvars, ct, pl, rl, dp>>

SpecPF == InitPF /\ [][NextPF]_vars

\* the same invocations with defaultdict, Iterable and sum_values bound in
\* the namespace of util.py, which the program as it is does not have:
\* the aggregate is computed, or a ValueError ends the run, and
\* write_to_database is reached
NextPFD ==
    \/ \E p \in Procs, f \in Files : NonConcurrent(p) /\ PFCall(p, f) /\ UNCHANGED <<cpvars, ct, pl, rl, dp>>
    \/ \E p \in Procs : PFCheck(p) /\ UNCHANGED <<cpvars, ct, pl, rl, dp>>
    \/ \E p \in Procs : PFComputeIn(p, BoundNames) /\ UNCHANGED <<cpvars, ct, pl, rl, dp>>
    \/ \E p \in Procs : PFWriteViews(p) /\ UNCHANGED <<cpvars, ct, pl, rl, dp>>
    \/ \E p \in Procs : PFRaise(p) /\ UNCHANGED <<cpvars, ct, pl, rl, dp>>

SpecPFD == InitPF /\ [][NextPFD]_vars

\* process_file invocations that run in processes of their own, with nothing
\* that keeps two of them from working on the same file at the same time
\* (process_log.py:259-278 takes no lock)
NextPFC ==
    \/ \E p \in Procs, f \in Files : PFCall(p, f) /\ UNCHANGED <<cpvars, ct, pl, rl, dp>>
    \/ \E p \in Procs : PFCheck(p) /\ UNCHANGED <<cpvars, ct, pl, rl, dp>>
    \/ \E p \in Procs : PFCompute(p) /\ UNCHANGED <<cpvars, ct, pl, rl, dp>>

SpecPFC == InitPF /\ [][NextPFC]_vars

\* the overlapping invocations with defaultdict, Iterable and sum_values
\* bound in the namespace of util.py
NextPFCD ==
    \/ \E p \in Procs, f \in Files : PFCall(p, f) /\ UNCHANGED <<cpvars, ct, pl, rl, dp>>
    \/ \E p \in Procs : PFCheck(p) /\ UNCHANGED <<cpvars, ct, pl, rl, dp>>
    \/ \E p \in Procs : PFComputeIn(p, BoundNames) /\ UNCHANGED <<cpvars, ct, pl, rl, dp>>
    \/ \E p \in Procs : PFWriteViews(p) /\ UNCHANGED <<cpvars, ct, pl, rl, dp>>
    \/ \E p \in Procs : PFRaise(p) /\ UNCHANGED <<cpvars, ct, pl, rl, dp>>

SpecPFCD == InitPF /\ [][NextPFCD]_vars

----------------------------------------------------------------------------
(* dump.py: the time window.  Hour and duration strings are sequences of     *)
(* characters; a datetime object is the record of its fields.  The outcome   *)
(* of a call is the string it returns, NoneStr when it returns None, and     *)
(* Raises(e) when it raises exception e.                                     *)

\* None, where a string is expected
NoneStr == <<"None">>

IsRaise(x) == Len(x) = 2 /\ x[1] = "raise"

\* the years of the calendar of the model
Years == 2019..2021

FirstYear == CHOOSE y \in Years : \A z \in Years : y <= z

IsLeap(y) == y % 4 = 0 /\ (y % 100 # 0 \/ y % 400 = 0)

DaysInMonth(y, m) ==
    IF m = 2 THEN (IF IsLeap(y) THEN 29 ELSE 28)
    ELSE IF m \in {4, 6, 9, 11} THEN 30 ELSE 31

DaysInYear(y) == IF IsLeap(y) THEN 366 ELSE 365

DaysBeforeYear(y) == SumSeq([i \in 1..(y - FirstYear) |-> DaysInYear(FirstYear + i - 1)])

DaysBeforeMonth(y, m) == SumSeq([i \in 1..(m - 1) |-> DaysInMonth(y, i)])

\* a datetime object, as the number of whole hours since the first year began
ToHours(dt) == (DaysBeforeYear(dt.y) + DaysBeforeMonth(dt.y, dt.m) + dt.d - 1) * 24 + dt.H

\* the datetime object n whole hours after the first year began, at M:S
FromHours(n, M, S) ==
    LET days == n \div 24
        y == CHOOSE yy \in Years :
                 DaysBeforeYear(yy) <= days /\ days < DaysBeforeYear(yy) + DaysInYear(yy)
        doy == days - DaysBeforeYear(y)
        m == CHOOSE mm \in 1..12 :
                 DaysBeforeMonth(y, mm) <= doy /\ doy < DaysBeforeMonth(y, mm) + DaysInMonth(y, mm)
    IN  [y |-> y, m |-> m, d |-> doy - DaysBeforeMonth(y, m) + 1, H |-> n % 24,
         M |-> M, S |-> S]

\* dt + datetime.timedelta(hours = k) (dump.py:78-79)
AddHours(dt, k) == FromHours(ToHours(dt) + k, dt.M, dt.S)

DigitChar(n) == CHOOSE c \in Digits : DigitVal(c) = n

\* %m, %d, %H, %M, %S of strftime: two digits
Pad2(n) == <<DigitChar(n \div 10), DigitChar(n % 10)>>

\* %Y of strftime: four digits
Pad4(n) == Pad2(n \div 100) \o Pad2(n % 100)

\* datetime_as_mysql: dt.strftime("%Y-%m-%d %H:%M:%S") (dump.py:18-20)
datetime_as_mysql(dt) ==
    Pad4(dt.y) \o <<"-">> \o Pad2(dt.m) \o <<"-">> \o Pad2(dt.d) \o <<" ">>
    \o Pad2(dt.H) \o <<":">> \o Pad2(dt.M) \o <<":">> \o Pad2(dt.S)

\* the characters of cs at the places of S are digits
DigitsAt(cs, S) == \A i \in S : cs[i] \in Digits

\* the number written by the characters of cs from place i to place j
NumAt(cs, i, j) == DigitsVal(SubSeq(cs, i, j), 0)

\* datetime.datetime.strptime(hour, "%Y-%m-%d %H:%M:%S") succeeds (dump.py:76),
\* on the strings of the model, which write every field with all its digits
StrptimeOk(cs) ==
    /\ Len(cs) = 19
    /\ DigitsAt(cs, {1, 2, 3, 4, 6, 7, 9, 10, 12, 13, 15, 16, 18, 19})
    /\ cs[5] = "-" /\ cs[8] = "-" /\ cs[11] = " " /\ cs[14] = ":" /\ cs[17] = ":"
    /\ NumAt(cs, 1, 4) \in Years
    /\ NumAt(cs, 6, 7) \in 1..12
    /\ NumAt(cs, 9, 10) \in 1..DaysInMonth(NumAt(cs, 1, 4), NumAt(cs, 6, 7))
    /\ NumAt(cs, 12, 13) \in 0..23
    /\ NumAt(cs, 15, 16) \in 0..59
    /\ NumAt(cs, 18, 19) \in 0..59

\* the datetime object strptime returns (dump.py:76)
Strptime(cs) ==
    [y |-> NumAt(cs, 1, 4), m |-> NumAt(cs, 6, 7), d |-> NumAt(cs, 9, 10),
     H |-> NumAt(cs, 12, 13), M |-> NumAt(cs, 15, 16), S |-> NumAt(cs, 18, 19)]

\* $ of a regular expression also matches before a newline that ends the string
BeforeFinalNewline(cs) ==
    IF cs # <<>> /\ cs[Len(cs)] = "\n" THEN SubSeq(cs, 1, Len(cs) - 1) ELSE cs

\* HOUR_RE.search(hour) matches: ^(\d\d\d\d-\d\d-\d\d)T(\d\d)$ (dump.py:32, 43)
HourReMatches(hour) ==
    LET cs == BeforeFinalNewline(hour)
    IN  /\ Len(cs) = 13
        /\ DigitsAt(cs, {1, 2, 3, 4, 6, 7, 9, 10, 12, 13})
        /\ cs[5] = "-" /\ cs[8] = "-" /\ cs[11] = "T"

\* the value of f"$1 $2:00:00" (dump.py:45): the f-string has no replacement
\* field, so it is this text whatever the groups of the match are
HourLiteral ==
    <<"$", "1", " ", "$", "2", ":", "0", "0", ":", "0", "0">>

\* parse_hour (dump.py:34-47)
parse_hour(hour) == IF HourReMatches(hour) THEN HourLiteral ELSE NoneStr

\* DURATION_UNITS (dump.py:49-55); a unit is a string of one character or ""
DURATION_UNITS == ("" :> 1 @@ "h" :> 1 @@ "d" :> 24 @@ "w" :> 24 * 7 @@ "m" :> 24 * 30)

\* the characters [hdwm] matches under re.IGNORECASE (dump.py:57)
UnitChars == {"h", "d", "w", "m", "H", "D", "W", "M"}

\* the groups (value, unit) DURATION_RE would give: the unit is the last
\* character when it is one of UnitChars (dump.py:57, 73)
DurationGroups(duration) ==
    LET cs == BeforeFinalNewline(duration)
    IN  IF cs # <<>> /\ cs[Len(cs)] \in UnitChars
        THEN <<SubSeq(cs, 1, Len(cs) - 1), cs[Len(cs)]>>
        ELSE <<cs, "">>

\* DURATION_RE.search(duration) matches: ^(\d+)([hdwm]?)$, re.IGNORECASE
\* (dump.py:57, 71)
DurationReMatches(duration) == AllDigits(DurationGroups(duration)[1])

\* mutant of parse_duration: the window is half open, n * k hours back
parse_duration_half_open(duration, hour) ==
    IF ~DurationReMatches(duration) THEN NoneStr
    ELSE LET value == DurationGroups(duration)[1]
             unit == DurationGroups(duration)[2]
         IN  IF unit \notin DOMAIN DURATION_UNITS THEN Raises("KeyError")
             ELSE IF ~StrptimeOk(hour) THEN Raises("ValueError")
             ELSE LET multiplier == DURATION_UNITS[unit]
                      adjusted_value == DigitsVal(value, 0) * multiplier
                      dt_to == Strptime(hour)
                      dt_from == AddHours(dt_to, 0 - adjusted_value)
                  IN  datetime_as_mysql(dt_from)

\* parse_duration (dump.py:59-84)
parse_duration(duration, hour) ==
    IF ~DurationReMatches(duration) THEN NoneStr
    ELSE LET value == DurationGroups(duration)[1]
             unit == DurationGroups(duration)[2]
         IN  IF unit \notin DOMAIN DURATION_UNITS THEN Raises("KeyError")
             ELSE IF ~StrptimeOk(hour) THEN Raises("ValueError")
             ELSE LET multiplier == DURATION_UNITS[unit]
                      adjusted_value == DigitsVal(value, 0) * multiplier - 1
                      dt_to == Strptime(hour)
                      dt_from == AddHours(dt_to, 0 - adjusted_value)
                  IN  datetime_as_mysql(dt_from)

\* parse_hour(hour) is called and returns (dump.py:34-47)
TWParseHour ==
    /\ dp.pc = "call"
    /\ dp.fn = "parse_hour"
    /\ dp' = [dp EXCEPT !.result = parse_hour(dp.arg), !.pc = "returned"]
    /\ UNCHANGED <<cpvars, ct, pl, store, pf, rl>>

\* parse_duration(duration, hour) is called and returns or raises (dump.py:59-84)
TWParseDuration ==
    /\ dp.pc = "call"
    /\ dp.fn = "parse_duration"
    /\ LET r == parse_duration(dp.arg, dp.hour)
       IN  dp' = [dp EXCEPT !.result = r, !.pc = IF IsRaise(r) THEN "raised" ELSE "returned"]
    /\ UNCHANGED <<cpvars, ct, pl, store, pf, rl>>

\* a call of one of the two functions, with its arguments
TWStart(fn, arg, hour) ==
    [pc |-> "call", fn |-> fn, arg |-> arg, hour |-> hour, result |-> NoneStr]

\* the strings given to parse_hour: dates, separators, hours of the day and
\* what follows them, and strings of other shapes
HourStrings ==
    {d \o sep \o h \o t :
        d \in {<<"2", "0", "1", "8", "-", "1", "0", "-", "1", "0">>,
              <<"2", "0", "2", "0", "-", "0", "1", "-", "1", "0">>,
              <<"2", "0", "2", "0", "-", "0", "2", "-", "2", "9">>,
              <<"2", "0", "2", "0", "-", "1", "2", "-", "3", "1">>},
        sep \in {<<"T">>, <<" ">>, <<"t">>},
        h \in {<<"0", "0">>, <<"0", "1">>, <<"0", "5">>, <<"2", "3">>},
        t \in {<<>>, <<":", "0", "0", ":", "0", "0">>}}
    \cup
    {<<>>,
     <<"1", "d">>,
     <<"2", "0", "1", "8", "-", "1", "0", "-", "1", "0", "T", "1">>,
     <<"2", "0", "1", "8", "-", "1", "x", "-", "1", "0", "T", "0", "1">>,
     <<"2", "0", "1", "8", "-", "1", "0", "-", "1", "0", "T", "0", "1", "\n">>,
     <<"x", "2", "0", "1", "8", "-", "1", "0", "-", "1", "0", "T", "0", "1">>}

\* the strings given to parse_duration: a number, then a unit, and strings
\* of other shapes
DurationStrings ==
    {n \o u :
        n \in {<<"0">>, <<"1">>, <<"2">>, <<"3">>, <<"1", "0">>, <<"0", "1">>},
        u \in {<<>>, <<"h">>, <<"d">>, <<"w">>, <<"m">>, <<"H">>, <<"D">>, <<"W">>, <<"M">>,
               <<"x">>}}
    \cup
    {<<>>,
     <<"d">>,
     <<"1", ".", "5", "d">>,
     <<"-", "1", "d">>,
     <<"1", " ", "d">>,
     <<"1", "d", "d">>,
     <<"1", "d", "\n">>,
     <<"2", "0", "1", "8", "-", "1", "0", "-", "1", "0", "T", "0", "1">>}

\* the hours given to parse_duration: what datetime_as_mysql returns for an
\* hour of the store, what parse_hour returns, and an hour of the command line
EndStrings ==
    {<<"2", "0", "2", "0", "-", "0", "1", "-", "1", "0", " ", "0", "5", ":", "0", "0", ":", "0", "0">>,
     <<"2", "0", "2", "0", "-", "0", "3", "-", "0", "1", " ", "0", "0", ":", "0", "0", ":", "0", "0">>,
     <<"2", "0", "2", "0", "-", "0", "1", "-", "0", "1", " ", "0", "0", ":", "0", "0", ":", "0", "0">>,
     <<"2", "0", "2", "1", "-", "0", "3", "-", "0", "1", " ", "1", "2", ":", "0", "0", ":", "0", "0">>}
    \cup {HourLiteral, <<"2", "0", "2", "0", "-", "0", "1", "-", "1", "0", "T", "0", "5">>}

InitTW ==
    /\ \/ \E h \in HourStrings : dp = TWStart("parse_hour", h, NoneStr)
       \/ \E d \in DurationStrings, h \in EndStrings : dp = TWStart("parse_duration", d, h)
    /\ CPIdle
    /\ ct = CTIdle
    /\ pl = PLIdle
    /\ pf = PFIdle
    /\ store = StoreIdle
    /\ rl = RLIdle

NextTW ==
    \/ TWParseHour
    \/ TWParseDuration

SpecTW == InitTW /\ [][NextTW]_vars

\* the rows of table hours are modelled by their column hour, a datetime
\* object; MAX(hour) is the latest of them
LatestOf(hours) == CHOOSE h \in hours : \A g \in hours : ToHours(g) <= ToHours(h)

\* latest_available_hour (dump.py:23-30): MAX(hour) of an empty table is NULL,
\* and datetime_as_mysql(None) raises AttributeError
latest_available_hour(hours) ==
    IF hours = {} THEN Raises("AttributeError") ELSE datetime_as_mysql(LatestOf(hours))

\* the outcome of a call that raises e
Raised(e) == [exc |-> e, start |-> NoneStr, end |-> NoneStr]

\* '1d', the start used when none is given (dump.py:106-107)
DefaultStart == <<"1", "d">>

\* convert_start_and_end (dump.py:87-112); None is NoneStr, and the outcome is
\* the exception raised, "none" when the call returns, and the pair returned
convert_start_and_end(hours, start, end) ==
    LET end_converted == IF end = NoneStr THEN latest_available_hour(hours)
                         ELSE parse_hour(end)
        start_given == IF start = NoneStr THEN DefaultStart ELSE start
        start_as_hour == parse_hour(start_given)
        start_converted == IF start_as_hour = NoneStr
                           THEN parse_duration(start_given, end_converted)
                           ELSE start_as_hour
    IN  IF IsRaise(end_converted) THEN Raised(end_converted[2])
        ELSE IF end_converted = NoneStr THEN Raised("AssertionError")
        ELSE IF IsRaise(start_converted) THEN Raised(start_converted[2])
        ELSE IF start_converted = NoneStr THEN Raised("AssertionError")
        ELSE [exc |-> "none", start |-> start_converted, end |-> end_converted]

\* convert_start_and_end(cursor, start, end) is called and returns or raises
\* (dump.py:87-112)
CSConvert ==
    /\ dp.pc = "call"
    /\ dp.fn = "convert_start_and_end"
    /\ LET r == convert_start_and_end(dp.hours, dp.start, dp.end)
       IN  dp' = [dp EXCEPT !.ret = r,
                            !.pc = IF r.exc = "none" THEN "returned" ELSE "raised"]
    /\ UNCHANGED <<cpvars, ct, pl, store, pf, rl>>

\* a call of convert_start_and_end, with its arguments and the hours of the store
CSStart(hours, start, end) ==
    [pc |-> "call", fn |-> "convert_start_and_end", hours |-> hours, start |-> start,
     end |-> end, ret |-> Raised("none")]

\* an hour of the store
Hour(y, m, d, H) == [y |-> y, m |-> m, d |-> d, H |-> H, M |-> 0, S |-> 0]

\* the hours the store may hold
StoreHourPool == {Hour(2020, 1, 10, 5), Hour(2020, 1, 9, 0), Hour(2020, 1, 1, 0)}

\* the start arguments: None, hours, durations, and strings that are neither
StartArgs ==
    {NoneStr} \cup
    {<<"2", "0", "2", "0", "-", "0", "1", "-", "0", "9", "T", "0", "6">>,
     <<"2", "0", "2", "0", "-", "0", "1", "-", "1", "1", "T", "0", "0">>,
     <<"1", "h">>,
     <<"1", "d">>,
     <<"2", "d">>,
     <<"1", "w">>,
     <<"0", "h">>,
     <<"0">>,
     <<"1", "D">>,
     <<"3", "x">>,
     <<>>}

\* the end arguments: None, hours, and strings that are no hour
EndArgs ==
    {NoneStr} \cup
    {<<"2", "0", "2", "0", "-", "0", "1", "-", "1", "0", "T", "0", "5">>,
     <<"2", "0", "2", "0", "-", "0", "1", "-", "1", "0", "T", "0", "0">>,
     <<"2", "0", "2", "0", "-", "0", "1", "-", "1", "0", " ", "0", "5", ":", "0", "0", ":", "0", "0">>,
     <<"n", "o", "w">>}

InitCS ==
    /\ \E hours \in SUBSET StoreHourPool, start \in StartArgs, end \in EndArgs :
          dp = CSStart(hours, start, end)
    /\ CPIdle
    /\ ct = CTIdle
    /\ pl = PLIdle
    /\ pf = PFIdle
    /\ store = StoreIdle
    /\ rl = RLIdle

NextCS == CSConvert

SpecCS == InitCS /\ [][NextCS]_vars

\* the rows of table qid_hourly_views for each hour of the store, as a dict
\* from qid to views; the row of table hours of that hour has the sum of
\* these views and the largest of these qids (process_log.py:224-245)
ViewRows(h) ==
    IF h = Hour(2020, 1, 10, 5) THEN (0 :> 7 @@ 5 :> 6 @@ 100 :> 8)
    ELSE IF h = Hour(2020, 1, 9, 0) THEN (100 :> 3 @@ 200 :> 1)
    ELSE (0 :> 1 @@ 7 :> 2)

\* the hours of the store that satisfy hour >= start AND hour <= end, for
\* bounds that are hours in the form of datetime_as_mysql (dump.py:125-128,
\* 145-151, 173-179)
HoursBetween(hours, start, end) ==
    {h \in hours : /\ ToHours(Strptime(start)) <= ToHours(h)
                   /\ ToHours(h) <= ToHours(Strptime(end))}

\* get_hours (dump.py:115-132); the statement has no ORDER BY, so the order
\* of the list is left open: the strings are kept as a set
get_hours(hours, start, end) == {datetime_as_mysql(h) : h \in HoursBetween(hours, start, end)}

\* str(n) for a natural number
RECURSIVE NatStr(_)
NatStr(n) == IF n < 10 THEN <<DigitChar(n)>> ELSE NatStr(n \div 10) \o <<DigitChar(n % 10)>>

\* "Q" + str(qid) (dump.py:158)
QidKey(qid) == <<"Q">> \o NatStr(qid)

\* SUM(views) ... GROUP BY qid over the hours of the window, for one qid
\* (dump.py:145-151)
WindowViews(window, qid) ==
    SumOver([h \in window |-> IF qid \in DOMAIN ViewRows(h) THEN ViewRows(h)[qid] ELSE 0],
            window)

\* dict(aggregate_by_qid(cursor, start, end)): the views per "Q<qid>" of the
\* qids that have a row in the window, qid 0 left out (dump.py:135-158, 213)
aggregate_by_qid(hours, start, end) ==
    LET window == HoursBetween(hours, start, end)
        qids == UNION {DOMAIN ViewRows(h) : h \in window} \ {0}
    IN  [key \in {QidKey(q) : q \in qids} |->
            WindowViews(window, CHOOSE q \in qids : QidKey(q) = key)]

\* the largest of a non-empty set of numbers
MaxOf(S) == CHOOSE x \in S : \A z \in S : z <= x

\* get_summary (dump.py:161-183) over the hours of the window: MAX(max_qid)
\* and SUM(views) of their rows in table hours
get_summary(window) ==
    [max_qid |-> MaxOf(UNION {DOMAIN ViewRows(h) : h \in window}),
     views |-> SumOver([h \in window |-> SumOfValues(ViewRows(h))], window)]

\* math.log(a) - math.log(b) (dump.py:219, 222).  The difference of two
\* logarithms is the logarithm of a / b; it is kept exactly, as the fraction
\* a / b it is the logarithm of.
LogDiff(a, b) == [num |-> a, den |-> b]

\* mutant of Logprobs: the count is not smoothed
LogprobsUnsmoothed(views, denominator) ==
    [qid \in DOMAIN views |-> LogDiff(views[qid], denominator)]

\* { qid: math.log(views+1) - log_denominator for qid, views in data }
\* (dump.py:218-221), log_denominator being math.log(denominator)
Logprobs(views, denominator) ==
    [qid \in DOMAIN views |-> LogDiff(views[qid] + 1, denominator)]

\* no get_dump is running
GDNone == [pc |-> "none"]

\* get_dump(start=start, end=end, mode=mode) is called (dump.py:186, 197); the
\* mode None is "None".  pc is the statement the call sends the store next,
\* data is what the last one returned, out the outcome of the call.
GDOpen(start, end, mode) ==
    [pc |-> "convert", start |-> start, end |-> end, mode |-> mode, hours |-> {},
     max_qid |-> 0, total_views |-> 0, data |-> <<>>, out |-> [exc |-> "none"]]

\* the call raises e
GDRaise(g, e) == [g EXCEPT !.pc = "raised", !.out = [exc |-> e]]

\* the connection is opened and convert_start_and_end is called, with
\* outcome c: it asks the store for MAX(hour) when end is None
\* (dump.py:198-200, 99-101)
GDConverted(g, c) ==
    IF c.exc # "none" THEN GDRaise(g, c.exc)
    ELSE [g EXCEPT !.pc = "get_hours", !.start = c.start, !.end = c.end]

\* hours = get_hours(cursor, start, end) (dump.py:201-202)
GDGetHours(g, hours) ==
    [g EXCEPT !.pc = "get_summary", !.hours = get_hours(hours, g.start, g.end)]

\* (max_qid, total_views) = get_summary(cursor, start, end) over the hours
\* that are in the window now (dump.py:203); it raises TypeError when there
\* is none, from int(None) (dump.py:182-183)
GDSummarized(g, window) ==
    IF window = {} THEN GDRaise(g, "TypeError")
    ELSE [g EXCEPT !.pc = "aggregate",
                   !.max_qid = get_summary(window).max_qid,
                   !.total_views = get_summary(window).views]

\* the result is built and the mode looked at (dump.py:204-226): in mode
\* views the rows of aggregate_by_qid, got now, are the views; in mode
\* logprobs math.log(total_views + max_qid) is computed first, and raises
\* ValueError for 0, then the rows are got; any other mode ends in assert
\* False before the statement of aggregate_by_qid is sent
GDAggregated(g, data) ==
    IF g.mode \in {"None", "views"}
    THEN [g EXCEPT !.pc = "returned",
                   !.data = data,
                   !.out = [exc |-> "none", start |-> g.start, end |-> g.end,
                            hours |-> g.hours, max_qid |-> g.max_qid,
                            total_views |-> g.total_views, views |-> data]]
    ELSE IF g.mode # "logprobs" THEN GDRaise(g, "AssertionError")
    ELSE IF g.total_views + g.max_qid = 0 THEN GDRaise(g, "ValueError")
    ELSE [g EXCEPT !.pc = "returned",
                   !.data = data,
                   !.out = [exc |-> "none", start |-> g.start, end |-> g.end,
                            hours |-> g.hours, max_qid |-> g.max_qid,
                            total_views |-> g.total_views,
                            logprobs |-> Logprobs(data, g.total_views + g.max_qid),
                            default_logprob |-> LogDiff(1, g.total_views + g.max_qid)]]

\* get_dump g goes on up to the answer of its next statement, against a
\* store that holds the rows of hours (dump.py:198-226).  Each statement
\* reads the store as it is when the statement is sent.
GDStep(g, hours) ==
    IF g.pc = "convert" THEN GDConverted(g, convert_start_and_end(hours, g.start, g.end))
    ELSE IF g.pc = "get_hours" THEN GDGetHours(g, hours)
    ELSE IF g.pc = "get_summary" THEN GDSummarized(g, HoursBetween(hours, g.start, g.end))
    ELSE GDAggregated(g, aggregate_by_qid(hours, g.start, g.end))

\* write_combination_file goes on with a get_dump that made a step: its
\* exception ends write_combination_file, its result joins parts (dump.py:269)
WCTake(g) ==
    IF g.pc = "raised"
    THEN dp' = [dp EXCEPT !.pc = "raised", !.exc = g.out.exc, !.gd = g]
    ELSE IF g.pc = "returned"
    THEN dp' = [dp EXCEPT !.parts = Append(@, g.out), !.gd = GDNone]
    ELSE dp' = [dp EXCEPT !.gd = g]

\* the list comprehension of write_combination_file (dump.py:269) goes on by
\* one statement of the store: that of the get_dump that is running, or the
\* first one of get_dump(database=database, start=duration) for the next
\* duration
WCGetDump ==
    /\ dp.pc = "parts"
    /\ Len(dp.parts) < Len(dp.durations)
    /\ WCTake(GDStep(IF dp.gd = GDNone
                     THEN GDOpen(dp.durations[Len(dp.parts) + 1], NoneStr, "None")
                     ELSE dp.gd,
                     dp.hours))
    /\ UNCHANGED <<cpvars, ct, pl, store, pf, rl>>

\* the statements after the parts were got (dump.py:270-278).  The one that
\* computes qids is set.intersection(part.keys() for part in parts)
\* (dump.py:271): set.intersection is called on the class with a generator
\* as its only argument, and raises TypeError because the generator is not a
\* set.  The comprehension that builds views, and the writing of the file,
\* are never reached.
WCCombine ==
    /\ dp.pc = "parts"
    /\ Len(dp.parts) = Len(dp.durations)
    /\ dp' = [dp EXCEPT !.pc = "raised", !.exc = "TypeError"]
    /\ UNCHANGED <<cpvars, ct, pl, store, pf, rl>>

\* a call of write_combination_file, with its durations and the hours of the
\* store; written is what json.dump has written, nothing at the start
WCStart(hours, durations) ==
    [pc |-> "parts", fn |-> "write_combination_file", hours |-> hours,
     durations |-> durations, parts |-> <<>>, exc |-> "none", gd |-> GDNone,
     written |-> [aggregations |-> <<>>, views |-> <<>>]]

\* the strings the lists of durations are made of
DurationPool ==
    {<<"1", "h">>,
     <<"1", "d">>,
     <<"1", "w">>,
     <<"1", "m">>,
     <<"0", "h">>,
     <<"1", "D">>,
     <<"x">>}

InitWC ==
    /\ \E hours \in SUBSET StoreHourPool, durations \in SeqsUpTo(DurationPool, MaxDurations) :
          dp = WCStart(hours, durations)
    /\ CPIdle
    /\ ct = CTIdle
    /\ pl = PLIdle
    /\ pf = PFIdle
    /\ store = StoreIdle
    /\ rl = RLIdle

NextWC ==
    \/ WCGetDump
    \/ WCCombine

SpecWC == InitWC /\ [][NextWC]_vars

\* another process commits the rows of a new hour, in table hours and in
\* table qid_hourly_views, while write_combination_file runs: between two
\* get_dump calls or between two statements of one
WCInsertHour ==
    /\ dp.pc = "parts"
    /\ \E h \in StoreHourPool \ dp.hours : dp' = [dp EXCEPT !.hours = @ \cup {h}]
    /\ UNCHANGED <<cpvars, ct, pl, store, pf, rl>>

\* write_combination_file against a store that other processes write to
NextWCC ==
    \/ WCGetDump
    \/ WCCombine
    \/ WCInsertHour

SpecWCC == InitWC /\ [][NextWCC]_vars

----------------------------------------------------------------------------
(* dump.py: the modes of get_dump *)

\* get_dump goes on with a step it made: the call is over when it returned
\* or raised
GDTake(g) ==
    dp' = [dp EXCEPT !.gd = g,
                     !.out = g.out,
                     !.pc = IF g.pc \in {"returned", "raised"} THEN "done" ELSE "call"]

\* the get_dump that was called goes on by one statement of the store
\* (dump.py:198-226)
GDCall ==
    /\ dp.pc = "call"
    /\ dp.fn = "get_dump"
    /\ GDTake(GDStep(dp.gd, dp.hours))
    /\ UNCHANGED <<cpvars, ct, pl, store, pf, rl>>

\* a call of get_dump, with its arguments and the hours of the store; the
\* mode None is "None".  The start is None or a duration: an hour given as
\* start reaches the store as the literal of parse_hour, and what the store
\* answers to a bound that is no datetime is outside the model.
GDStart(hours, start, end, mode) ==
    [pc |-> "call", fn |-> "get_dump", hours |-> hours, start |-> start, end |-> end,
     mode |-> mode, gd |-> GDOpen(start, end, mode), out |-> [exc |-> "none"]]

InitGD ==
    /\ \E hours \in SUBSET StoreHourPool, start \in DurationPool \cup {NoneStr},
          end \in EndArgs, mode \in {"None", "views", "logprobs", "json"} :
          dp = GDStart(hours, start, end, mode)
    /\ CPIdle
    /\ ct = CTIdle
    /\ pl = PLIdle
    /\ pf = PFIdle
    /\ store = StoreIdle
    /\ rl = RLIdle

\* get_dump against a store that no other process writes to meanwhile
NextGD ==
    \/ GDCall

SpecGD == InitGD /\ [][NextGD]_vars

\* the generator is run to exhaustion by its consumer (a for loop or list())
FairSpecCP == SpecCP /\ WF_vars(NextCP)

FairSpecCPD == SpecCPD /\ WF_vars(NextCPD)

----------------------------------------------------------------------------
(* Claims about chunk_and_partition *)

\* the places <<j, k>> of the yielded pairs that hold item x
PlacesOf(x) ==
    {jk \in UNION {{<<j, k>> : k \in 1..Len(emitted[j][2])} : j \in 1..Len(emitted)} :
        emitted[jk[1]][2][jk[2]] = x}

EmittedCount == SumSeq([j \in 1..Len(emitted) |-> Len(emitted[j][2])])

\* every input item is in exactly one yielded pair, and nothing else is yielded
ExactlyOnce ==
    /\ \A i \in 1..Len(items) : Cardinality(PlacesOf(items[i])) = 1
    /\ EmittedCount = Len(items)

\* every bucket of the cache left at exhaustion was yielded by the final loop
RemainingEmitted ==
    \A i \in 1..Len(cache) :
        \E j \in 1..Len(emitted) :
            /\ emitted[j] = <<cache[i].p, cache[i].ii>>
            /\ emitlog[j].why = "drain"

\* each of the three bounds is None or a positive integer
ValidBounds ==
    OptionalPositive(chunk_size) /\ OptionalPositive(max_unprocessed)
        /\ OptionalPositive(max_buckets)

\* the generator went past its first next(): with bounds that are each None
\* or a positive integer it did not end in an error there
Started == ValidBounds => pc # "raised"

\* when the generator has returned every input item is in exactly one
\* yielded pair, nothing else was yielded, and every bucket still buffered
\* at exhaustion was yielded; before that no item is yielded twice
Exactness ==
    /\ pc = "done" => ExactlyOnce /\ RemainingEmitted
    /\ \A i \in 1..Len(items) : Cardinality(PlacesOf(items[i])) <= 1

\* a generator with valid bounds that is run to exhaustion returns
Terminates == ValidBounds => <>(pc = "done")

\* C2: for every input, key function and setting of the three bounds (each
\* None or a positive integer), chunk_and_partition terminates without
\* raising, and when it has every input item is in exactly one yielded pair,
\* nothing else was yielded, and every bucket still buffered at exhaustion
\* was yielded; before that no item is yielded twice.  The generator raises
\* only for a bound that is neither None nor a positive integer.
C2_Exactness ==
    /\ []Exactness
    /\ Terminates
    /\ []Started

\* a run with all three bounds set that evicted, emptied a bucket by the
\* final loop and returned
AllBoundsRun ==
    /\ pc = "done"
    /\ chunk_size # Unset /\ max_unprocessed # Unset /\ max_buckets # Unset
    /\ Len(items) = MaxItems
    /\ \E j \in 1..Len(emitlog) : emitlog[j].why = "drain"
    /\ \E j \in 1..Len(emitlog) : emitlog[j].why = "max_buckets"
    /\ \E j \in 1..Len(emitlog) : emitlog[j].why = "chunk_size"

\* the bound chunk_size puts on the buckets and on the yielded pairs
ChunkSizeBound ==
    chunk_size # Unset /\ pc \notin {"start", "raised"} =>
        /\ \A i \in 1..Len(cache) : Len(cache[i].ii) <= ValueOf(chunk_size)
        /\ \A j \in 1..Len(emitted) : Len(emitted[j][2]) <= ValueOf(chunk_size)
        /\ pc = "loop" => \A i \in 1..Len(cache) : Len(cache[i].ii) < ValueOf(chunk_size)
        /\ pc = "yielded" => emitlog[Len(emitlog)].why = "chunk_size"
                                /\ emitlog[Len(emitlog)].at = pos
        /\ \A j \in 1..Len(emitlog) :
              emitlog[j].why = "chunk_size" => Len(emitted[j][2]) = ValueOf(chunk_size)

\* C3: with chunk_size set, chunk_and_partition reads its input and buffers
\* it (with valid bounds its first next() raises nothing), and then no
\* buffered bucket ever holds more than chunk_size items, no yielded pair has
\* more than chunk_size items, and at the top of the loop (before the next
\* item is read) every bucket holds fewer than chunk_size items: a bucket
\* that reached chunk_size was yielded right after the append that filled
\* it, with exactly chunk_size items, and the generator is suspended at that
\* yield for the item it read last.
C3_ChunkSizeBound ==
    /\ chunk_size # Unset => Started
    /\ ChunkSizeBound

\* the generator is suspended at the yield of a bucket that has just reached
\* chunk_size > 1 and is still in the cache
ChunkFilled ==
    /\ chunk_size # Unset /\ ValueOf(chunk_size) > 1
    /\ pc = "yielded"
    /\ \E i \in 1..Len(cache) : Len(cache[i].ii) = ValueOf(chunk_size)
    /\ \E j \in 1..Len(emitlog) : emitlog[j].why = "chunk_size"

\* the bound max_unprocessed puts on the number of buffered items
MaxUnprocessedBound ==
    /\ drained = 0 => n_unprocessed = BufferedTotal(cache)
    /\ max_unprocessed # Unset /\ pc \notin {"start", "raised"} =>
          /\ BufferedTotal(cache) <= ValueOf(max_unprocessed)
          /\ pc = "loop" => BufferedTotal(cache) < ValueOf(max_unprocessed)

\* C4: with max_unprocessed set, whatever chunk_size and max_buckets are,
\* chunk_and_partition reads its input and buffers it (with valid bounds its
\* first next() raises nothing), and then the number of buffered items
\* (which n_unprocessed counts) never exceeds max_unprocessed, and at the top
\* of the loop it is strictly less: when the total reached the bound, a
\* bucket was yielded before the next item is read.
C4_MaxUnprocessedBound ==
    /\ max_unprocessed # Unset => Started
    /\ MaxUnprocessedBound

\* the total has just reached max_unprocessed > 1 with the other two bounds
\* set, and an earlier yield was made for that reason
TotalReached ==
    /\ max_unprocessed # Unset /\ ValueOf(max_unprocessed) > 1
    /\ chunk_size # Unset /\ max_buckets # Unset
    /\ pc = "check"
    /\ BufferedTotal(cache) = ValueOf(max_unprocessed)
    /\ \E j \in 1..Len(emitlog) : emitlog[j].why = "max_unprocessed"

\* the keys open in a cache
OpenKeys(c) == {c[i].p : i \in 1..Len(c)}

\* the bound max_buckets puts on the number of open buckets
MaxBucketsBound ==
    max_buckets # Unset /\ pc \notin {"start", "raised"} =>
        /\ Len(cache) <= ValueOf(max_buckets)
        /\ Cardinality(OpenKeys(cache)) = Len(cache)
        /\ \A j \in 1..Len(emitlog) :
              emitlog[j].why = "max_buckets" =>
                  /\ Len(emitlog[j].open) = ValueOf(max_buckets)
                  /\ ApplyKey(keyfn, items[emitlog[j].at]) \notin OpenKeys(emitlog[j].open)

\* C5: with max_buckets set, chunk_and_partition reads its input and opens
\* buckets (with valid bounds its first next() raises nothing), and then the
\* number of open buckets never exceeds max_buckets; a yield made for the
\* max_buckets reason happened with max_buckets buckets open and for an item
\* whose key was not open, removed one bucket, and no item whose key was
\* open caused one.
C5_MaxBucketsBound ==
    /\ max_buckets # Unset => Started
    /\ MaxBucketsBound

\* max_buckets > 1 buckets are open after an eviction made room for a new key
RoomMade ==
    /\ max_buckets # Unset /\ ValueOf(max_buckets) > 1
    /\ Len(cache) = ValueOf(max_buckets)
    /\ pc = "check"
    /\ emitlog # <<>>
    /\ emitlog[Len(emitlog)].why = "max_buckets"
    /\ emitlog[Len(emitlog)].at = pos

\* a yield made before the input is exhausted yields a largest bucket
LargestEmitted ==
    \A j \in 1..Len(emitlog) :
        emitlog[j].why # "drain" =>
            /\ emitted[j] = <<emitlog[j].open[emitlog[j].idx].p, emitlog[j].open[emitlog[j].idx].ii>>
            /\ \A i \in 1..Len(emitlog[j].open) :
                  Len(emitlog[j].open[i].ii) <= Len(emitted[j][2])

\* one of the three bounds is set
SomeBound == chunk_size # Unset \/ max_unprocessed # Unset \/ max_buckets # Unset

\* C6: chunk_and_partition yields before its input is exhausted (with a
\* bound set and valid bounds its first next() raises nothing, so the loop
\* that makes these yields is run), and every such yield (for the
\* chunk_size, the max_unprocessed or the max_buckets reason) yields a bucket
\* that holds at least as many items as every bucket open at that moment.
C6_LargestEmitted ==
    /\ SomeBound => Started
    /\ LargestEmitted

\* a yield before exhaustion chose a bucket that was not the first of the
\* dict and was strictly larger than another open bucket
LargerChosen ==
    \E j \in 1..Len(emitlog) :
        /\ emitlog[j].why \in {"max_buckets", "max_unprocessed"}
        /\ emitlog[j].idx > 1
        /\ Len(emitlog[j].open[1].ii) < Len(emitted[j][2])

AllUnset == chunk_size = Unset /\ max_unprocessed = Unset /\ max_buckets = Unset

\* the input items with key k, in input order
ItemsWithKey(k) == SelectSeq(items, LAMBDA x : ApplyKey(keyfn, x) = k)

InputKeys == {ApplyKey(keyfn, items[i]) : i \in 1..Len(items)}

\* there is exactly one yielded pair per distinct key of the input, holding
\* all the input items with that key
FullPartition ==
    /\ Len(emitted) = Cardinality(InputKeys)
    /\ \A k \in InputKeys :
          \E j \in 1..Len(emitted) : emitted[j] = <<k, ItemsWithKey(k)>>

\* C7: with the three bounds unset, nothing is yielded before the input is
\* exhausted, and when the generator has ended there is exactly one yielded
\* pair per distinct key, holding all the input items with that key.
C7_FullPartition ==
    AllUnset =>
        /\ (pos < Len(items) \/ pc = "check") => emitted = <<>>
        /\ pc \in {"done", "raised"} => FullPartition

\* the same for the generators that returned
FullPartitionAtReturn ==
    AllUnset =>
        /\ (pos < Len(items) \/ pc = "check") => emitted = <<>>
        /\ pc = "done" => FullPartition

\* the three bounds are unset and the run ended with two keys, one of them
\* with several items that were not adjacent in the input
TwoKeysRun ==
    /\ AllUnset
    /\ pc = "done"
    /\ Len(emitted) >= 2
    /\ Len(items) >= 3
    /\ ApplyKey(keyfn, items[1]) = ApplyKey(keyfn, items[3])
    /\ ApplyKey(keyfn, items[1]) # ApplyKey(keyfn, items[2])

----------------------------------------------------------------------------
(* Claims about convert_titles_to_qids *)

\* the id the database gives for a title in a pass, NoQid when it has no row
AnswerOf(table, t) ==
    IF \E r \in table : r[1] = t
    THEN Some(QidOfValue((CHOOSE r \in table : r[1] = t)[2]))
    ELSE NoQid

\* the id of the direct pass, else the id of the redirect pass, else None
ExpectedQid(db, t) ==
    IF AnswerOf(DirectTable(db), t) # NoQid THEN AnswerOf(DirectTable(db), t)
    ELSE AnswerOf(RedirectTable(db), t)

\* the list a call returns is parallel to its titles
ParallelResult ==
    ct.pc = "done" =>
        /\ Len(ct.ret) = Len(ct.titles)
        /\ \A i \in 1..Len(ct.titles) : ct.ret[i] = ExpectedQid(ct.dbname, ct.titles[i])
        /\ \A i, j \in 1..Len(ct.titles) :
              ct.titles[i] = ct.titles[j] => ct.ret[i] = ct.ret[j]
        /\ ct.ret = convert_titles_to_qids(ct.dbname, ct.titles)

\* C9: convert_titles_to_qids returns (no error ends the call), and what it
\* returns has one element per input title, in input order: element i is the
\* id the database returned for title i in the direct pass, else in the
\* redirect pass, else None; equal titles get equal results.
C9_ParallelResult ==
    /\ ct.pc # "raised"
    /\ ParallelResult

\* a call returned for a list that holds a title twice, a title of the direct
\* pass, one of the redirect pass, one of both and one of neither, after a
\* batch call failed
MixedTitlesReturned ==
    /\ ct.pc = "done"
    /\ ct.dbname = "enwiki"
    /\ ct.titles = <<TKitty, TBoth, TZzz, TKitty>>
    /\ ct.ret = <<Some(100), Some(7), NoQid, Some(100)>>
    /\ ct.fails > 0

\* C12 (about the batch calls, which are made only where chunks is defined):
\* in convert_titles_to_qids a transient failure of a batch call is
\* retried, while a non-transient failure is not retried: it propagates out of
\* convert_titles_to_qids (and so aborts process_file before any summary row
\* is written).
C12_FailurePolicy ==
    /\ ct.pc # "idle" /\ ct.last_failure = "transient" => ct.pc \in {"direct", "redirect"}
    /\ ct.pc # "idle" /\ ct.last_failure = "permanent" => ct.pc = "raised"
    /\ ct.pc # "idle" => "permanent" \notin ct.retried

----------------------------------------------------------------------------
(* Claims about process_log_entries folded by sum_values *)

InputViews == SumSeq([i \in 1..Len(items) |-> items[i].views])

\* the values of the aggregate sum to the views of the log
Conservation == pl.pc = "summed" => SumOfValues(pl.qid_views) = InputViews

\* C1: for every log the aggregate is built (no error ends
\* process_log_entries), and the aggregate (the pairs of process_log_entries
\* folded by sum_values, the entry of id 0 included) has values whose sum is
\* the sum of the views of all the entries of the log.
C1_Conservation ==
    /\ pl.exc # "NameError"
    /\ Conservation

\* an entry of the log is resolved: its project has a database and its title
\* gets an id there
EntryQid(le) ==
    LET db == database_from_project_name(le.project)
    IN  IF db = NoneDb THEN NoQid
        ELSE IF db = "wikidatawiki"
        THEN (IF StartsWithQ(le.title) THEN Some(IntVal(DropFirst(le.title))) ELSE NoQid)
        ELSE ExpectedQid(db, le.title)

UnresolvedViews ==
    SumSeq([i \in 1..Len(items) |-> IF EntryQid(items[i]) = NoQid THEN items[i].views ELSE 0])

\* the aggregate has the unresolved views under id 0
SentinelCount ==
    pl.pc = "summed" =>
        /\ 0 \in DOMAIN pl.qid_views
        /\ pl.qid_views[0] = UnresolvedViews

\* C10: the aggregate of a log is built (the unresolved views are not
\* dropped with a run that a NameError ends), and in it the count under id 0
\* is the sum of the views of the entries that were not resolved.
C10_SentinelCount ==
    /\ pl.pc = "raised" => pl.exc # "NameError"
    /\ SentinelCount

----------------------------------------------------------------------------
(* Claims about sum_values *)

\* the ids that occur in a list of (id, count) pairs
IdsOf(kvs) == {kvs[i][1] : i \in 1..Len(kvs)}

\* the sum of the counts a list of pairs gives for id k
CountsOf(kvs, k) == SumSeq([i \in 1..Len(kvs) |-> IF kvs[i][1] = k THEN kvs[i][2] ELSE 0])

\* the mapping sum_values has returned has exactly the ids of the list as
\* its keys and, for each id, the sum of the counts paired with it
SumByKey ==
    pl.pc = "summed" =>
        /\ DOMAIN pl.qid_views = IdsOf(pl.pairs)
        /\ \A k \in IdsOf(pl.pairs) : pl.qid_views[k] = CountsOf(pl.pairs, k)
        /\ pl.pairs = <<<<100, 5>>, <<100, 3>>, <<200, 1>>>> =>
              pl.qid_views = (100 :> 8 @@ 200 :> 1)

\* C11: for every list of (id, count) pairs sum_values returns a mapping (no
\* error ends the call) whose keys are exactly the ids that occur in the
\* list and whose value for each id is the sum of the counts paired with it;
\* (100, 5), (100, 3), (200, 1) gives 100 -> 8 and 200 -> 1.
C11_SumByKey ==
    /\ pl.pc # "raised"
    /\ SumByKey

----------------------------------------------------------------------------
(* Claims about read_log *)

\* a line is well formed: four fields, the third one an integer
WellFormed(line) ==
    /\ Len(Split(line, " ")) = 4
    /\ IntOk(Split(line, " ")[3])

\* the entries of the well-formed lines of a file, in order
RECURSIVE EntriesOf(_)
EntriesOf(lines) ==
    IF lines = <<>> THEN <<>>
    ELSE (IF WellFormed(Head(lines)) THEN <<LineEntry(Head(lines))>> ELSE <<>>)
         \o EntriesOf(Tail(lines))

\* C13: read_log yields no entry for a malformed line (a field count other
\* than four, or a view count that is not a number) and goes on with the
\* next line: no error reaches the caller, who gets the entries of all the
\* well-formed lines.
C13_MalformedSkipped ==
    /\ rl.pc # "raised"
    /\ rl.pc = "done" => rl.out = EntriesOf(rl.lines)

----------------------------------------------------------------------------
(* Claims about process_file *)

Returned(p) == pf.proc[p].pc = "returned"

\* the invocation of process p is over
Ended(p) == pf.proc[p].pc \in {"returned", "raised"}

\* the invocation of process p is over and no ValueError of its input (a
\* line of the file, a wikidatawiki title) ended it
RanThrough(p) == Ended(p) /\ pf.proc[p].exc # "ValueError"

\* C8: when process_file invocations do not overlap, the store never holds
\* more than one summary row per file name; an invocation returns False
\* exactly when the file had a summary row at its check, and then the store
\* is as it was; an invocation for a file without a summary row that no
\* error of its input ends completes: it returns True, and the store then
\* holds exactly one summary row for the file.
C8_Idempotence ==
    /\ \A f \in Files : store.hours[f] <= 1
    /\ \A p \in Procs :
          Returned(p) =>
              /\ pf.proc[p].ret = "False" <=> pf.proc[p].existed
              /\ pf.proc[p].ret = "True" <=> ~pf.proc[p].existed
    /\ \A p \in Procs :
          RanThrough(p) /\ ~pf.proc[p].existed =>
              /\ Returned(p)
              /\ pf.proc[p].ret = "True"
              /\ store.hours[pf.proc[p].file] = 1

----------------------------------------------------------------------------
(* Claims about the time window *)

\* a call of parse_duration has ended
DurationCallEnded == dp.pc \in {"returned", "raised"} /\ dp.fn = "parse_duration"

\* the unit letters of the duration grammar
ClaimUnits == {"h", "d", "w", "m"}

\* the unit a duration string ends with, <<>> when it ends with none
UnitOf(d) == IF d # <<>> /\ d[Len(d)] \in ClaimUnits THEN <<d[Len(d)]>> ELSE <<>>

\* what comes before the unit
CountChars(d) == SubSeq(d, 1, Len(d) - Len(UnitOf(d)))

\* a positive integer, then a unit or nothing
IsCountAndUnit(d) == AllDigits(CountChars(d)) /\ DigitsVal(CountChars(d), 0) > 0

CountOf(d) == DigitsVal(CountChars(d), 0)

\* the multipliers of the duration grammar: hours per unit
ClaimMultiplier(u) ==
    CASE u = <<>> -> 1 [] u = <<"h">> -> 1 [] u = <<"d">> -> 24 [] u = <<"w">> -> 168
      [] u = <<"m">> -> 720

Hour_2020_01_10_05 ==
    <<"2", "0", "2", "0", "-", "0", "1", "-", "1", "0", " ", "0", "5", ":", "0", "0", ":", "0", "0">>

\* C14, as amended: for a positive integer n and a unit of multiplier k
\* parse_duration returns the start that lies n * k - 1 hours before the end
\* hour, so that the closed interval [start, end] holds n * k hours: "1h"
\* gives start = end, "1d" a closed interval of 24 hours, and "2d" with the
\* end 2020-01-10 05:00:00 gives 2020-01-08 06:00:00.
C14_ClosedInterval ==
    DurationCallEnded /\ IsCountAndUnit(dp.arg) /\ StrptimeOk(dp.hour) =>
        /\ dp.pc = "returned"
        /\ StrptimeOk(dp.result)
        /\ ToHours(Strptime(dp.result)) =
              ToHours(Strptime(dp.hour)) - (CountOf(dp.arg) * ClaimMultiplier(UnitOf(dp.arg)) - 1)
        /\ SubSeq(dp.result, 14, 19) = SubSeq(dp.hour, 14, 19)
        /\ dp.arg = <<"1", "h">> => dp.result = dp.hour
        /\ dp.arg = <<"1", "d">> =>
              ToHours(Strptime(dp.hour)) - ToHours(Strptime(dp.result)) + 1 = 24
        /\ dp.arg = <<"2", "d">> /\ dp.hour = Hour_2020_01_10_05 =>
              dp.result =
                  <<"2", "0", "2", "0", "-", "0", "1", "-", "0", "8", " ", "0", "6", ":", "0", "0", ":", "0", "0">>

\* a call for "2d" returned the start of the 48 hours that end at
\* 2020-01-10 05:00:00
C14_Witness ==
    /\ dp.pc = "returned"
    /\ dp.fn = "parse_duration"
    /\ dp.arg = <<"2", "d">>
    /\ dp.hour = Hour_2020_01_10_05
    /\ dp.result =
          <<"2", "0", "2", "0", "-", "0", "1", "-", "0", "8", " ", "0", "6", ":", "0", "0", ":", "0", "0">>

\* C14, as stated: the same, but "2d" with the end 2020-01-10 05:00:00 gives
\* 2020-01-09 06:00:00.
C14_Original ==
    DurationCallEnded /\ IsCountAndUnit(dp.arg) /\ StrptimeOk(dp.hour) =>
        /\ dp.pc = "returned"
        /\ StrptimeOk(dp.result)
        /\ ToHours(Strptime(dp.result)) =
              ToHours(Strptime(dp.hour)) - (CountOf(dp.arg) * ClaimMultiplier(UnitOf(dp.arg)) - 1)
        /\ SubSeq(dp.result, 14, 19) = SubSeq(dp.hour, 14, 19)
        /\ dp.arg = <<"1", "h">> => dp.result = dp.hour
        /\ dp.arg = <<"1", "d">> =>
              ToHours(Strptime(dp.hour)) - ToHours(Strptime(dp.result)) + 1 = 24
        /\ dp.arg = <<"2", "d">> /\ dp.hour = Hour_2020_01_10_05 =>
              dp.result =
                  <<"2", "0", "2", "0", "-", "0", "1", "-", "0", "9", " ", "0", "6", ":", "0", "0", ":", "0", "0">>

\* str.lower() on the unit letters
LowerUnit(u) ==
    CASE u = <<"H">> -> <<"h">> [] u = <<"D">> -> <<"d">> [] u = <<"W">> -> <<"w">>
      [] u = <<"M">> -> <<"m">> [] OTHER -> u

\* the unit of a duration string, in either case
UnitAnyCase(d) ==
    IF d # <<>> /\ LowerUnit(<<d[Len(d)]>>) # <<d[Len(d)]>> THEN <<d[Len(d)]>> ELSE UnitOf(d)

\* an integer, then a unit in either case or nothing
DurationShape(d) == AllDigits(SubSeq(d, 1, Len(d) - Len(UnitAnyCase(d))))

\* a positive integer, then a unit in either case or nothing
ClaimAccepts(d) ==
    /\ DurationShape(d)
    /\ DigitsVal(SubSeq(d, 1, Len(d) - Len(UnitAnyCase(d))), 0) > 0

\* the start the grammar gives for an accepted duration string
ClaimStart(d, hour) ==
    LET count == SubSeq(d, 1, Len(d) - Len(UnitAnyCase(d)))
        k == ClaimMultiplier(LowerUnit(UnitAnyCase(d)))
    IN  datetime_as_mysql(AddHours(Strptime(hour), 0 - (DigitsVal(count, 0) * k - 1)))

\* C15: parse_duration accepts exactly the strings made of a positive integer
\* followed by one of the units empty, h, d, w, m (multipliers 1, 1, 24, 168,
\* 720), the unit in either case ("1D" gives what "1d" gives), and returns
\* None for every other string.
C15_Grammar ==
    DurationCallEnded /\ StrptimeOk(dp.hour) =>
        /\ dp.pc = "returned"
        /\ dp.result = IF ClaimAccepts(dp.arg) THEN ClaimStart(dp.arg, dp.hour) ELSE NoneStr

\* a string of the form YYYY-MM-DDTHH
IsHourForm(h) ==
    /\ Len(h) = 13
    /\ DigitsAt(h, {1, 2, 3, 4, 6, 7, 9, 10, 12, 13})
    /\ h[5] = "-" /\ h[8] = "-" /\ h[11] = "T"

\* C17: parse_hour turns every string of the form YYYY-MM-DDTHH into
\* "YYYY-MM-DD HH:00:00" with the same date and hour, and returns None for
\* every other string.
C17_HourFormat ==
    dp.pc = "returned" /\ dp.fn = "parse_hour" =>
        dp.result = IF IsHourForm(dp.arg)
                    THEN SubSeq(dp.arg, 1, 10) \o <<" ">> \o SubSeq(dp.arg, 12, 13)
                         \o <<":", "0", "0", ":", "0", "0">>
                    ELSE NoneStr


\* a call of convert_start_and_end has ended
ConvertCallEnded == dp.pc \in {"returned", "raised"} /\ dp.fn = "convert_start_and_end"

\* C16: every (start, end) pair that convert_start_and_end returns has
\* start <= end, for every start (hour, duration or default) and every end
\* it accepts.
C16_StartNotAfterEnd ==
    ConvertCallEnded /\ dp.pc = "returned"
    /\ StrptimeOk(dp.ret.start) /\ StrptimeOk(dp.ret.end) =>
        ToHours(Strptime(dp.ret.start)) <= ToHours(Strptime(dp.ret.end))

\* C18: convert_start_and_end ends in an error when the end is given and is
\* no hour, when the start is neither an hour nor a duration, and when the
\* end is omitted and the store has no recorded hour; with the default start
\* and an end that is an hour, or is omitted while the store has an hour, it
\* returns a window.
C18_WindowErrors ==
    ConvertCallEnded =>
        /\ dp.end # NoneStr /\ ~IsHourForm(dp.end) => dp.pc = "raised"
        /\ dp.start # NoneStr /\ ~IsHourForm(dp.start) /\ ~DurationShape(dp.start) =>
              dp.pc = "raised"
        /\ dp.end = NoneStr /\ dp.hours = {} => dp.pc = "raised"
        /\ dp.start = NoneStr /\ (IsHourForm(dp.end) \/ (dp.end = NoneStr /\ dp.hours # {})) =>
              dp.pc = "returned"


----------------------------------------------------------------------------
(* Claims about the combination dump *)

\* a call of write_combination_file has ended after it got a dump for every
\* one of its durations
CombinationEnded ==
    /\ dp.fn = "write_combination_file"
    /\ dp.pc \in {"written", "raised"}
    /\ Len(dp.parts) = Len(dp.durations)

\* the ids of the dumps of the windows
PartIds == UNION {DOMAIN dp.parts[i].views : i \in 1..Len(dp.parts)}

\* C19: the ids that write_combination_file puts in the merged views are the
\* union of the ids of the dumps of the windows: an id seen in at least one
\* window has an entry.
C19_UnionOfIds ==
    CombinationEnded =>
        /\ dp.pc = "written"
        /\ DOMAIN dp.written.views = PartIds

\* C20: in what write_combination_file writes every id of the merged views
\* has a sequence of exactly one count per requested duration, in the order
\* of the durations: slot i is the id's count in window i, and 0 when the id
\* has none there.
C20_OneCountPerWindow ==
    CombinationEnded =>
        /\ dp.pc = "written"
        /\ PartIds # {} => DOMAIN dp.written.views # {}
        /\ \A qid \in DOMAIN dp.written.views :
              /\ Len(dp.written.views[qid]) = Len(dp.durations)
              /\ \A i \in 1..Len(dp.durations) :
                    dp.written.views[qid][i] =
                        IF qid \in DOMAIN dp.parts[i].views THEN dp.parts[i].views[qid] ELSE 0


----------------------------------------------------------------------------
(* Claims about the modes of get_dump *)

\* a call of get_dump in mode logprobs has returned
LogprobsReturned ==
    /\ dp.pc = "done"
    /\ dp.fn = "get_dump"
    /\ dp.mode = "logprobs"
    /\ dp.out.exc = "none"

\* log(x.num / x.den) < log(y.num / y.den): the logarithm is strictly
\* increasing, and the denominators are positive
LogLess(x, y) == x.num * y.den < y.num * x.den

\* the log-probability the claim gives to a count
ClaimLogprob(count, total_views, max_qid) == LogDiff(count + 1, total_views + max_qid)

\* the count of every id in the rows aggregate_by_qid gave the call
ObservedCounts == dp.gd.data

\* C21: in mode logprobs of get_dump the log-probability of an id is
\* log(count + 1) - log(total_views + max_qid); within one result it is
\* strictly increasing in the count of the id, and default_logprob is the
\* value of the formula for the count 0, below that of every id seen.
C21_LogprobsMonotone ==
    LogprobsReturned =>
        /\ DOMAIN dp.out.logprobs = DOMAIN ObservedCounts
        /\ \A qid \in DOMAIN dp.out.logprobs :
              /\ dp.out.logprobs[qid] =
                    ClaimLogprob(ObservedCounts[qid], dp.out.total_views, dp.out.max_qid)
              /\ ObservedCounts[qid] > 0 =>
                    LogLess(dp.out.default_logprob, dp.out.logprobs[qid])
        /\ \A q1, q2 \in DOMAIN dp.out.logprobs :
              ObservedCounts[q1] < ObservedCounts[q2] <=>
                  LogLess(dp.out.logprobs[q1], dp.out.logprobs[q2])
        /\ dp.out.default_logprob = ClaimLogprob(0, dp.out.total_views, dp.out.max_qid)

\* a result in mode logprobs with ids of different counts
C21_Witness ==
    /\ LogprobsReturned
    /\ \E q1, q2 \in DOMAIN dp.out.logprobs : ObservedCounts[q1] < ObservedCounts[q2]


----------------------------------------------------------------------------
(* Claims about the passes of convert_titles_to_qids *)

\* the batch calls of a pass that have completed, in the order they were made
CallsOf(pass) == SelectSeq(ct.calls, LAMBDA c : c.pass = pass)

\* the titles for which a completed direct-pass call returned an id
DirectlyReturned ==
    {r[1] : r \in UNION {ct.calls[i].rows : i \in {j \in 1..Len(ct.calls) :
                                                    ct.calls[j].pass = "direct"}}}

\* the titles of the batches of a sequence of calls, one after the other
RECURSIVE BatchesOf(_)
BatchesOf(calls) ==
    IF calls = <<>> THEN <<>> ELSE calls[1].batch \o BatchesOf(Tail(calls))

\* the order and the content of the batch calls that were made
PassOrder ==
    /\ \A i \in 1..Len(ct.calls) :
          /\ Len(ct.calls[i].batch) \in 1..BatchSize
          /\ ct.calls[i].pass = "redirect" =>
                /\ \A j \in i..Len(ct.calls) : ct.calls[j].pass = "redirect"
                /\ BatchesOf(CallsOf("direct")) = ct.titles
                /\ \A k \in 1..Len(ct.calls[i].batch) :
                      ct.calls[i].batch[k] \notin DirectlyReturned
    /\ ct.pc = "done" =>
          /\ BatchesOf(CallsOf("direct")) = ct.titles
          /\ BatchesOf(CallsOf("redirect")) =
                SelectSeq(ct.titles, LAMBDA t : t \notin DirectlyReturned)

\* a call has ended without a batch call for its titles
NoBatchCall == ct.pc \in {"done", "raised"} /\ ct.titles # <<>> /\ ct.calls = <<>>

\* C22: convert_titles_to_qids makes batch calls for its titles (a call for
\* a non-empty list does not end without one); every redirect-pass batch
\* call is made after all the direct-pass batch calls have completed (the
\* direct batches then cover the whole list of titles), and holds only
\* titles for which no direct-pass call returned an id; when the direct pass
\* returns an id for every title no redirect call is made; and no batch
\* holds more titles than the batch size.
C22_PassOrder ==
    /\ ~NoBatchCall
    /\ PassOrder

\* a call with several full direct batches and a redirect batch, made while
\* the direct pass had returned ids for some of the titles only
TwoPassesMade ==
    /\ ct.pc = "done"
    /\ Len(CallsOf("direct")) >= 2
    /\ Len(CallsOf("direct")[1].batch) = BatchSize
    /\ CallsOf("redirect") # <<>>
    /\ DirectlyReturned # {}


----------------------------------------------------------------------------
(* Claims about the batches of process_log_entries *)

\* a title is a prefixed identifier: Q and then digits only
ValidId(title) == StartsWithQ(title) /\ AllDigits(DropFirst(title))

\* the id the claims give to each entry of a batch of a key: none without a
\* database, the number of a prefixed identifier for wikidatawiki, the id
\* the resolver finds for any other database
ClaimQids(dbname, entries) ==
    [i \in 1..Len(entries) |->
        IF dbname = NoneDb THEN NoQid
        ELSE IF dbname = "wikidatawiki"
        THEN (IF ValidId(entries[i].title) THEN Some(IntVal(DropFirst(entries[i].title)))
              ELSE NoQid)
        ELSE ExpectedQid(dbname, entries[i].title)]

\* the (id, views) pairs of the resolved entries of the first n batches
RECURSIVE ClaimPairs(_)
ClaimPairs(n) ==
    IF n = 0 THEN <<>>
    ELSE ClaimPairs(n - 1) \o BatchPairs(emitted[n][2], ClaimQids(emitted[n][1], emitted[n][2]))

\* the views of the entries of the first n batches that are not resolved
RECURSIVE ClaimUnresolved(_)
ClaimUnresolved(n) ==
    IF n = 0 THEN 0
    ELSE ClaimUnresolved(n - 1)
         + SumSeq(BatchUnconverted(emitted[n][2], ClaimQids(emitted[n][1], emitted[n][2])))

\* C23: for every finite input, the empty one included, process_log_entries
\* ends by yielding one final pair (0, unresolved_total): before the input
\* is exhausted it has yielded the pairs of the resolved entries and nothing
\* else, and at the end the final pair follows them, also when the total is 0.
C23_FinalPair ==
    /\ pl.pc \in {"run", "zip", "exhausted", "summed"}
    /\ pl.pc = "run" => pl.pairs = ClaimPairs(pl.consumed)
    /\ pl.pc = "zip" =>
          pl.pairs = ClaimPairs(pl.consumed - 1)
                     \o BatchPairs(SubSeq(pl.log_entries, 1, pl.idx),
                                   ClaimQids(emitted[pl.consumed][1],
                                             SubSeq(pl.log_entries, 1, pl.idx)))
    /\ pl.pc \in {"exhausted", "summed"} =>
          /\ pc = "done"
          /\ pl.consumed = Len(emitted)
          /\ pl.pairs = Append(ClaimPairs(Len(emitted)), <<0, ClaimUnresolved(Len(emitted))>>)

\* process_log_entries takes the next batch of chunk_and_partition
BatchTaken == pl.pc = "run" /\ pl.consumed < Len(emitted) /\ pl' # pl

TakenKey == emitted[pl.consumed + 1][1]

TakenEntries == emitted[pl.consumed + 1][2]

\* the step that takes a batch without a database calls no resolver, yields
\* no pair and adds the views of the batch to the unresolved total
NoDatabaseBatch ==
    [][BatchTaken /\ TakenKey = NoneDb =>
          /\ pl'.pc = "run"
          /\ pl'.consumed = pl.consumed + 1
          /\ pl'.resolver_calls = pl.resolver_calls
          /\ pl'.pairs = pl.pairs
          /\ pl'.unconverted_views =
                pl.unconverted_views
                + SumSeq([i \in 1..Len(TakenEntries) |-> TakenEntries[i].views])]_vars

\* the log has an entry whose domain maps to no database
HasNoDatabaseEntry ==
    \E i \in 1..Len(items) : database_from_project_name(items[i].project) = NoneDb

\* C24: process_log_entries gets the entries whose domain maps to no
\* database as batches of key None (no NameError ends it before), and for
\* such a batch it calls no resolver and yields no (id, views) pair: all the
\* views of the batch are added to the unresolved total.
C24_NoDatabaseBatch ==
    /\ [](HasNoDatabaseEntry => pl.exc # "NameError")
    /\ NoDatabaseBatch

\* a batch without a database was taken after a batch that was resolved
NoDatabaseTaken ==
    /\ pl.pc = "run"
    /\ pl.consumed >= 2
    /\ emitted[pl.consumed][1] = NoneDb
    /\ pl.pairs # <<>>
    /\ pl.unconverted_views > 0

\* the log has an entry of wikidatawiki
HasWikidataEntry ==
    \E i \in 1..Len(items) : database_from_project_name(items[i].project) = "wikidatawiki"

\* the step that takes a wikidatawiki batch calls no resolver and gives the
\* zip loop the numbers of the prefixed identifiers, None for other titles
WikidataLocal ==
    [][BatchTaken /\ TakenKey = "wikidatawiki" =>
          /\ pl'.pc = "zip"
          /\ pl'.consumed = pl.consumed + 1
          /\ pl'.resolver_calls = pl.resolver_calls
          /\ pl'.log_entries = TakenEntries
          /\ pl'.qids = ClaimQids("wikidatawiki", TakenEntries)]_vars

\* C25: for a wikidatawiki batch process_log_entries calls no resolver:
\* every title that is a prefixed identifier is accepted as its number, and
\* every other title (also one that begins with the prefix and is no
\* identifier) is counted as unresolved, without an error: the ids the
\* entries of the batch go into the zip loop with are those numbers, and
\* None for every other title; no error ends process_log_entries on a log
\* with wikidatawiki entries.
C25_WikidataLocal ==
    /\ [](HasWikidataEntry => pl.pc # "raised")
    /\ WikidataLocal



----------------------------------------------------------------------------
(* Claims about concurrent and aborting process_file invocations *)

\* the invocations for file f that found no summary row at the check and
\* are over, with no error of their input
RanToEnd(f) ==
    {p \in Procs : RanThrough(p) /\ pf.proc[p].file = f /\ ~pf.proc[p].existed}

\* C26: at-most-once persistence per file needs non-concurrent invocation.
\* When two process_file invocations for the same file overlap so that both
\* pass the check before either writes, both insert their view rows and a
\* summary row: each of them returns True, and the store holds two summary
\* rows and two sets of view rows for the file.
C26_ConcurrentDuplicates ==
    \A f \in Files :
        Cardinality(RanToEnd(f)) = 2 =>
            /\ \A p \in RanToEnd(f) : Returned(p) /\ pf.proc[p].ret = "True"
            /\ store.hours[f] = 2
            /\ store.views[f] = 2

\* an invocation aborts
Aborts(p) == pf.proc[p].pc # "raised" /\ pf'.proc[p].pc = "raised"

\* a step adds a summary row of a file only when it completes a run for that
\* file, and it adds the view rows with it; a step that aborts a run adds no
\* summary row; a run is skipped only when the file has a summary row
SummaryAfterViews ==
    [][/\ \A p \in Procs : Aborts(p) => store'.hours = store.hours
       /\ \A f \in Files :
             store'.hours[f] # store.hours[f] =>
                 /\ store'.views[f] > store.views[f]
                 /\ \E p \in Procs : /\ pf.proc[p].file = f
                                     /\ pf.proc[p].computed
                                     /\ pf'.proc[p].ret = "True"
       /\ \A p \in Procs :
             /\ pf.proc[p].pc = "check"
             /\ pf'.proc[p].pc = "returned"
             => store.hours[pf.proc[p].file] > 0]_vars

\* no run is ended by a NameError: a run that passed its check gets to the
\* inserts of write_to_database, or an error of its input ends it
ReachesInserts ==
    \A p \in Procs : pf.proc[p].pc = "raised" => pf.proc[p].exc # "NameError"

AbortedThenChecked ==
    \E p, q \in Procs, f \in Files :
        /\ pf.proc[p].pc = "raised" /\ pf.proc[p].file = f /\ pf.proc[p].exc = "NameError"
        /\ store.hours[f] = 0
        /\ pf.proc[q].pc = "compute" /\ pf.proc[q].file = f /\ ~pf.proc[q].existed


----------------------------------------------------------------------------
(* Claims about the end hour of the windows of a combination *)

\* C27: all the dumps of the windows that one write_combination_file call
\* merges have the same end hour, also when another process inserts a new
\* hour into the store between two of its get_dump calls.
C27_SharedEnd ==
    dp.fn = "write_combination_file" =>
        \A i, j \in 1..Len(dp.parts) : dp.parts[i].end = dp.parts[j].end


----------------------------------------------------------------------------
(* Claims about the pairs of chunk_and_partition and the resolver calls *)

\* s is t with some of its elements left out
RECURSIVE IsSubseq(_, _)
IsSubseq(s, t) ==
    IF s = <<>> THEN TRUE
    ELSE IF t = <<>> THEN FALSE
    ELSE IF Head(s) = Head(t) THEN IsSubseq(Tail(s), Tail(t))
    ELSE IsSubseq(s, Tail(t))

\* the batches process_log_entries has taken that go to the resolver: those
\* of a database other than wikidatawiki
ResolverBatches ==
    SelectSeq(SubSeq(emitted, 1, pl.consumed),
              LAMBDA b : b[1] \notin {NoneDb, "wikidatawiki"})

\* the pairs chunk_and_partition yields and the resolver calls made for them
SingleKeyBatches ==
    /\ \A j \in 1..Len(emitted) :
          /\ emitted[j][2] # <<>>
          /\ \A i \in 1..Len(emitted[j][2]) :
                ApplyKey(keyfn, emitted[j][2][i]) = emitted[j][1]
          /\ IsSubseq(emitted[j][2], items)
    /\ pl # PLIdle =>
          /\ Len(pl.resolver_calls) = Len(ResolverBatches)
          /\ \A c \in 1..Len(pl.resolver_calls) :
                /\ pl.resolver_calls[c][1] = ResolverBatches[c][1]
                /\ pl.resolver_calls[c][2] =
                      [i \in 1..Len(ResolverBatches[c][2]) |-> ResolverBatches[c][2][i].title]
                /\ \A i \in 1..Len(ResolverBatches[c][2]) :
                      database_from_project_name(ResolverBatches[c][2][i].project)
                          = pl.resolver_calls[c][1]

\* C29: chunk_and_partition yields its input as (key, items) pairs (with
\* valid bounds its first next() raises nothing); every pair it yields is
\* not empty, every one of its items has the yielded key, and its items are
\* in the order of the input; hence every resolver call of
\* process_log_entries gets the titles of the entries of one batch, all of
\* the database it is made for.
C29_SingleKeyBatches ==
    /\ Started
    /\ SingleKeyBatches

\* process_log_entries called the resolver for two databases, one of them
\* with a batch of several titles that were not adjacent in the log
TwoDatabasesResolved ==
    /\ pl # PLIdle
    /\ Len(pl.resolver_calls) >= 2
    /\ pl.resolver_calls[1][1] # pl.resolver_calls[2][1]
    /\ \E c \in 1..Len(pl.resolver_calls) : Len(pl.resolver_calls[c][2]) >= 2
    /\ Len(items) >= 3
    /\ ApplyKey(keyfn, items[1]) # ApplyKey(keyfn, items[2])
    /\ ApplyKey(keyfn, items[1]) = ApplyKey(keyfn, items[3])


----------------------------------------------------------------------------
(* Claims about the retries of a batch call *)

\* results after the rows of a sequence of completed batch calls were stored
RECURSIVE ResultsOf(_)
ResultsOf(calls) ==
    IF calls = <<>> THEN <<>>
    ELSE StoreRows(ResultsOf(SubSeq(calls, 1, Len(calls) - 1)), calls[Len(calls)].rows)

\* failed attempts leave no trace in the results and in the returned list
RetryIdempotent ==
    /\ ct.pc # "idle" /\ ct.last_failure = "none" => ct.results = ResultsOf(ct.calls)
    /\ ct.pc = "done" /\ ct.fails > 0 =>
          ct.ret = convert_titles_to_qids(ct.dbname, ct.titles)

\* C30: convert_titles_to_qids gets to its batch calls and returns an id
\* sequence (no NameError ends it before a batch call is attempted); a batch
\* call that fails any number of times, also after part of its rows were
\* stored, and then succeeds leaves the results that the calls completed so
\* far give when each succeeds at its first attempt, and the id sequence
\* returned at the end is the one of a run without failures.
C30_RetryIdempotent ==
    /\ ct.pc = "raised" => ct.exc # "NameError"
    /\ RetryIdempotent

\* a call returned ids from both passes after MaxFailures attempts failed,
\* some of them after they had stored rows
FailuresThenReturned ==
    /\ ct.pc = "done"
    /\ ct.fails = MaxFailures
    /\ ct.partial
    /\ \E i \in 1..Len(ct.ret) : ct.ret[i] # NoQid
    /\ \E i \in 1..Len(ct.calls) : ct.calls[i].pass = "redirect"

============================================================================
